---- MODULE Spec2Model ----
(***************************************************************************)
(* Model of bndxn/secure-app: the Garmin activity fetchers (two variants), *)
(* the time-window filters and the analyzer Lambda handlers (two           *)
(* variants).                                                              *)
(*                                                                         *)
(* Variant "A" is src/lambda/garmin_analyzer/{garmin_activities,handler}.py*)
(* Variant "B" is src/src/lambda/garmin_analyzer/{get_from_garmin,handler} *)
(***************************************************************************)
EXTENDS Integers, Sequences, FiniteSets, TLC

VARIABLES
    fs,         \* the local filesystem: absolute path |-> [kind, data]
    wipeArg,    \* argument of the last call of the clearing routine
    fsPre,      \* filesystem right before that call
    wipeCalls,  \* number of calls of the clearing routine so far
    cyc,        \* fetch cycles: id |-> state of one get_recent_garmin_activities call
    flt,        \* one application of a time-window filter: input, parameters, result
    hnd,        \* one invocation of lambda_handler
    store,      \* object storage: [objs, log] (key |-> object, keys in write order)
    clock,      \* wall clock, whole seconds since 2000-01-01
    web,        \* the web application: its configuration and its last response
    fb,         \* one application of format_runs_fallback: input and result
    formatted,  \* one application of an interval-row formatter: arguments and result
    sch         \* one invocation of the App Runner scheduler's lambda_handler

(***************************************************************************)
(* Bounds                                                                  *)
(***************************************************************************)
MaxWipeCalls == 2

MaxActs == 2        \* longest activity listing the platform returns

MaxFilterLen == 2   \* longest list handed to a filter on its own

MaxTicks == 1       \* seconds that may pass during one handler invocation

MaxSaved == 4       \* longest context list handed to save_analysis_to_s3 on its own

MaxFallbackLen == 2 \* longest list of arbitrary runs handed to format_runs_fallback

MaxLongList == 16   \* longest list of well-formed runs handed to format_runs_fallback

MaxStored == 3      \* most analysis objects in the bucket when a page is requested

(***************************************************************************)
(* Generic helpers                                                         *)
(***************************************************************************)
Last(s) == s[Len(s)]

Front(s) == SubSeq(s, 1, Len(s) - 1)

IsPrefix(p, q) == Len(p) <= Len(q) /\ SubSeq(q, 1, Len(p)) = p

IsStrictPrefix(p, q) == Len(p) < Len(q) /\ SubSeq(q, 1, Len(p)) = p

(***************************************************************************)
(* Paths.  A Python path string is modelled by [abs, parts]: whether it    *)
(* starts with "/" and its "/"-separated components ("" for an empty       *)
(* component, as in a trailing or doubled slash).  The empty string is     *)
(* [abs |-> FALSE, parts |-> <<>>].                                        *)
(* Filesystem keys are resolved absolute paths: sequences of names.        *)
(***************************************************************************)
CACHE_DIR_NAME == ".fitcache"

Cwd == <<"var", "task">>

LinkTarget == <<"tmp", "data">>

PathStr(abs, parts) == [abs |-> abs, parts |-> parts]

EmptyStr == PathStr(FALSE, <<>>)

\* os.path.join(dir, name) for a non-empty dir and a relative name
PathJoin(p, name) ==
    IF p.parts # <<>> /\ Last(p.parts) = ""
    THEN PathStr(p.abs, Front(p.parts) \o <<name>>)
    ELSE PathStr(p.abs, p.parts \o <<name>>)

\* posixpath.normpath: the loop over the components
RECURSIVE NormComps(_, _, _)
NormComps(abs, comps, acc) ==
    IF comps = <<>> THEN acc
    ELSE LET c == Head(comps) IN
         IF c \in {"", "."} THEN NormComps(abs, Tail(comps), acc)
         ELSE IF c # ".." \/ (~abs /\ acc = <<>>) \/ (acc # <<>> /\ Last(acc) = "..")
              THEN NormComps(abs, Tail(comps), Append(acc, c))
              ELSE IF acc # <<>>
                   THEN NormComps(abs, Tail(comps), Front(acc))
                   ELSE NormComps(abs, Tail(comps), acc)

NormPath(p) == PathStr(p.abs, NormComps(p.abs, p.parts, <<>>))

\* os.path.basename of a normalized path ("." for the empty relative path)
BaseName(p) ==
    IF p.parts = <<>> THEN (IF p.abs THEN "" ELSE ".") ELSE Last(p.parts)

(***************************************************************************)
(* The filesystem as the operating system sees it.                         *)
(***************************************************************************)
NoPath == <<"?none?">>

Exists(f, ap) == ap = <<>> \/ ap \in DOMAIN f

KindOf(f, ap) == IF ap = <<>> THEN "dir" ELSE f[ap].kind

\* follow a symbolic link (all links of the model point at LinkTarget)
Follow(f, ap) ==
    IF ap # NoPath /\ Exists(f, ap) /\ KindOf(f, ap) = "link" THEN LinkTarget ELSE ap

IsDirAt(f, ap) ==
    /\ ap # NoPath
    /\ Exists(f, Follow(f, ap))
    /\ KindOf(f, Follow(f, ap)) = "dir"

\* kernel path walk: every component but the last is followed; the result
\* is the location of the last component itself (NoPath if unreachable, a
\* non-existing location if only the last component is missing)
RECURSIVE Walk(_, _, _)
Walk(f, cur, comps) ==
    IF comps = <<>> THEN cur
    ELSE IF ~IsDirAt(f, cur) THEN NoPath
    ELSE LET d == Follow(f, cur)
             c == Head(comps)
             nxt == IF c \in {"", "."} THEN d
                    ELSE IF c = ".." THEN (IF d = <<>> THEN <<>> ELSE Front(d))
                    ELSE Append(d, c)
         IN Walk(f, nxt, Tail(comps))

Locate(f, p) == Walk(f, IF p.abs THEN <<>> ELSE Cwd, p.parts)

\* os.path.isdir / isfile / islink / exists
OsIsDir(f, p) == p # EmptyStr /\ IsDirAt(f, Locate(f, p))

OsIsFile(f, p) ==
    LET l == Follow(f, Locate(f, p)) IN
    p # EmptyStr /\ l # NoPath /\ l # <<>> /\ Exists(f, l) /\ f[l].kind = "file"

OsExists(f, p) ==
    LET l == Follow(f, Locate(f, p)) IN p # EmptyStr /\ l # NoPath /\ Exists(f, l)

\* os.listdir of a directory location
ListDir(f, d) == {ap[Len(ap)] : ap \in {q \in DOMAIN f : Len(q) = Len(d) + 1 /\ IsPrefix(d, q)}}

Remove(f, gone) == [ap \in (DOMAIN f) \ gone |-> f[ap]]

Subtree(f, ap) == {q \in DOMAIN f : IsPrefix(ap, q)}

\* file contents: [fmt, body]
Blob(fmt, body) == [fmt |-> fmt, body |-> body]

NoData == Blob("none", <<>>)

DirEntry == [kind |-> "dir", data |-> NoData]

FileEntry(d) == [kind |-> "file", data |-> d]

\* os.makedirs, the mkdir of the leaf at location loc once the parents are
\* there; an existing leaf is an error unless it is a directory (exist_ok)
MkDirLeaf(f1, p, loc) ==
    IF loc = NoPath THEN [fs |-> f1, raised |-> TRUE]
    ELSE IF Exists(f1, loc) THEN [fs |-> f1, raised |-> ~OsIsDir(f1, p)]
    ELSE [fs |-> [ap \in (DOMAIN f1) \cup {loc} |->
                      IF ap = loc THEN DirEntry ELSE f1[ap]],
          raised |-> FALSE]

\* os.makedirs after the parents were made with result r1: an error of the
\* parents propagates, a leaf "." is left alone
MakeDirsTail(r1, p, tail) ==
    IF r1.raised THEN r1
    ELSE IF tail = "." THEN r1
    ELSE MkDirLeaf(r1.fs, p, Locate(r1.fs, p))

\* os.makedirs(name, exist_ok=True); yields [fs, raised]
RECURSIVE MakeDirs(_, _)
MakeDirs(f, p) ==
    LET stripped == IF p.parts # <<>> /\ Last(p.parts) = "" THEN Front(p.parts) ELSE p.parts
        hasTail  == stripped # <<>>
        head     == PathStr(p.abs, IF hasTail THEN Front(stripped) ELSE <<>>)
        tail     == IF hasTail THEN Last(stripped) ELSE ""
        headSet  == p.abs \/ Len(stripped) > 1
    IN  IF ~hasTail THEN [fs |-> f, raised |-> ~OsIsDir(f, p)]
        ELSE MakeDirsTail(IF headSet /\ ~OsExists(f, head)
                          THEN MakeDirs(f, head)
                          ELSE [fs |-> f, raised |-> FALSE],
                          p, tail)

(***************************************************************************)
(* _cleanup_cache_dir (A) / _wipe_dir_contents (B): identical code.        *)
(* stuck is the set of entry names whose removal raises (caught and        *)
(* logged by the routine); a failing rmtree may already have removed what  *)
(* is below the entry.  Yields [fs, raised].                               *)
(***************************************************************************)
WipeRemoved(f, d, stuck, partial) ==
    UNION { LET ap == Append(d, e) IN
            IF f[ap].kind \in {"link", "file"}
            THEN (IF e \in stuck THEN {} ELSE {ap})
            ELSE IF e \in stuck
                 THEN (IF partial THEN Subtree(f, ap) \ {ap} ELSE {})
                 ELSE Subtree(f, ap)
          : e \in ListDir(f, d) }

\* the routine without its check of the directory name
WipeDirContents_AnyName(f, p, stuck, partial) ==
    IF p = EmptyStr THEN [fs |-> f, raised |-> FALSE]
    ELSE IF ~OsIsDir(f, p) THEN MakeDirs(f, p)
    ELSE LET d == Follow(f, Locate(f, p))
         IN [fs |-> Remove(f, WipeRemoved(f, d, stuck, partial)), raised |-> FALSE]

WipeDirContents(f, p, stuck, partial) ==
    IF p = EmptyStr THEN [fs |-> f, raised |-> FALSE]
    ELSE IF BaseName(NormPath(p)) # CACHE_DIR_NAME THEN [fs |-> f, raised |-> FALSE]
    ELSE IF ~OsIsDir(f, p) THEN MakeDirs(f, p)
    ELSE LET d == Follow(f, Locate(f, p))
         IN [fs |-> Remove(f, WipeRemoved(f, d, stuck, partial)), raised |-> FALSE]

(***************************************************************************)
(* Optional values: <<>> is Python's None, <<v>> a present value.          *)
(***************************************************************************)
Nil == <<>>

Some(v) == <<v>>

IsNil(o) == o = <<>>

Val(o) == o[1]

\* truthiness of an optional number (None and 0 are falsy)
Truthy(o) == o # <<>> /\ o[1] # 0

\* Python's  x or y
OrElse(x, y) == IF Truthy(x) THEN x ELSE y

(***************************************************************************)
(* Lap files.  A text field is a sequence of characters; a TCX document    *)
(* is Blob("tcx", laps), anything ElementTree cannot parse is              *)
(* Blob("badxml", <<>>), zero bytes are Blob("empty", <<>>), an archive is *)
(* Blob("zip", entries) with entries [name, data].                         *)
(***************************************************************************)
EmptyBytes == Blob("empty", <<>>)

Digits == {"0", "1", "2", "3", "4", "5", "6", "7", "8", "9"}

DigitVal(c) == CASE c = "0" -> 0 [] c = "1" -> 1 [] c = "2" -> 2 [] c = "3" -> 3
                 [] c = "4" -> 4 [] c = "5" -> 5 [] c = "6" -> 6 [] c = "7" -> 7
                 [] c = "8" -> 8 [] c = "9" -> 9

RECURSIVE DigitsVal(_, _)
DigitsVal(txt, acc) ==
    IF txt = <<>> THEN acc ELSE DigitsVal(Tail(txt), 10 * acc + DigitVal(Head(txt)))

\* float(text) on the texts of the model (unsigned whole numbers, or not a
\* number at all): [ok, v]; ~ok is a ValueError
ParseFloat(txt) ==
    IF txt # <<>> /\ \A i \in 1..Len(txt) : txt[i] \in Digits
    THEN [ok |-> TRUE, v |-> DigitsVal(txt, 0)]
    ELSE [ok |-> FALSE, v |-> 0]

Lap(dur, dist, hr, label) == [dur |-> dur, dist |-> dist, hr |-> hr, label |-> label]

\* float(t) if t else None  for one lap field; raises on a non-numeric text
LapField(txt) ==
    IF txt = <<>> THEN [ok |-> TRUE, v |-> Nil]
    ELSE [ok |-> ParseFloat(txt).ok, v |-> Some(ParseFloat(txt).v)]

\* the row of one lap: the arguments handed to the row formatter
IntervalRow(lap) ==
    [label  |-> IF lap.label = <<>> THEN "lap" ELSE lap.label[1],
     dist_m |-> LapField(lap.dist).v,
     dur_s  |-> LapField(lap.dur).v,
     avg_hr |-> LapField(lap.hr).v]

\* intervals of a record: null (None) or a list of rows
NullIntervals == [null |-> TRUE, rows |-> <<>>]

Intervals(rows) == [null |-> FALSE, rows |-> rows]

\* the extractor returning the list of rows as it is, empty or not
ParseTcx_ReturnsEmptyList(f, p) ==
    LET loc == Follow(f, Locate(f, p)) IN
    IF ~OsIsFile(f, p) THEN NullIntervals
    ELSE LET doc == f[loc].data IN
         IF doc.fmt # "tcx" THEN NullIntervals
         ELSE IF \E i \in 1..Len(doc.body) :
                    \/ ~LapField(doc.body[i].dur).ok
                    \/ ~LapField(doc.body[i].dist).ok
                    \/ ~LapField(doc.body[i].hr).ok
              THEN NullIntervals
         ELSE Intervals([i \in 1..Len(doc.body) |-> IntervalRow(doc.body[i])])

\* the extractor reading a field that is no number as a missing field
ParseTcx_BadNumberAsMissing(f, p) ==
    LET loc == Follow(f, Locate(f, p)) IN
    IF ~OsIsFile(f, p) THEN NullIntervals
    ELSE LET doc == f[loc].data IN
         IF doc.fmt # "tcx" THEN NullIntervals
         ELSE IF doc.body = <<>> THEN NullIntervals
         ELSE Intervals([i \in 1..Len(doc.body) |-> IntervalRow(doc.body[i])])

\* _parse_tcx_intervals (A) / _intervals_from_tcx_path (B)
ParseTcx(f, p) ==
    LET loc == Follow(f, Locate(f, p)) IN
    IF ~OsIsFile(f, p) THEN NullIntervals
    ELSE LET doc == f[loc].data IN
         IF doc.fmt # "tcx" THEN NullIntervals
         ELSE IF \E i \in 1..Len(doc.body) :
                    \/ ~LapField(doc.body[i].dur).ok
                    \/ ~LapField(doc.body[i].dist).ok
                    \/ ~LapField(doc.body[i].hr).ok
              THEN NullIntervals
         ELSE IF doc.body = <<>> THEN NullIntervals
         ELSE Intervals([i \in 1..Len(doc.body) |-> IntervalRow(doc.body[i])])

(***************************************************************************)
(* Staging a file.  disk is what the local disk does with the write: "ok"  *)
(* or "fail" (OSError, nothing written).  Yields [fs, ret] with ret        *)
(* "true", "false" or "raised".                                            *)
(***************************************************************************)
\* open(path, "wb") and write at the location loc the path leads to
WriteAt(f, loc, data, disk) ==
    IF disk = "fail" \/ loc = NoPath \/ loc = <<>> \/ IsDirAt(f, loc)
    THEN [fs |-> f, ok |-> FALSE]
    ELSE [fs |-> [ap \in (DOMAIN f) \cup {loc} |-> IF ap = loc THEN FileEntry(data) ELSE f[ap]],
          ok |-> TRUE]

WriteFile(f, p, data, disk) == WriteAt(f, Follow(f, Locate(f, p)), data, disk)

\* after the write with result w:  return bool(data), or the OSError
Written(w, data) ==
    IF ~w.ok THEN [fs |-> w.fs, ret |-> "raised"]
    ELSE [fs |-> w.fs, ret |-> IF data.fmt # "empty" THEN "true" ELSE "false"]

\* after os.makedirs with result d: the write, or the error of makedirs
SaveInto(d, p, data, disk) ==
    IF d.raised THEN [fs |-> d.fs, ret |-> "raised"]
    ELSE Written(WriteFile(d.fs, p, data, disk), data)

\* _save_bytes (B): no exception handling
SaveBytes(f, p, data, disk) ==
    SaveInto(MakeDirs(f, PathStr(p.abs, Front(p.parts))), p, data, disk)

\* except Exception: return False
Caught(r) == [fs |-> r.fs, ret |-> IF r.ret = "raised" THEN "false" ELSE r.ret]

\* _save_file (A): every exception is caught and reported as False
SaveFile(f, p, data, disk) == Caught(SaveBytes(f, p, data, disk))

Save(variant, f, p, data, disk) ==
    IF variant = "A" THEN SaveFile(f, p, data, disk) ELSE SaveBytes(f, p, data, disk)

\* _download_activity_file (A) / _download_via_enum (B).  resp is what
\* api.download_activity does: [kind, data] with kind "raise", "bytes" or
\* "object" (a response object whose content attribute is data)
DownloadFile(variant, f, p, resp, disk) ==
    IF resp.kind = "raise" THEN [fs |-> f, ret |-> "false"]
    ELSE IF resp.data.fmt = "empty" THEN [fs |-> f, ret |-> "false"]
    ELSE Save(variant, f, p, resp.data, disk)

\* name.lower().endswith(".tcx") on the entry names of the model
IsTcxName(name) == name \in {"activity.tcx", "ACTIVITY.TCX"}

TcxEntries(entries) == SelectSeq(entries, LAMBDA e : IsTcxName(e.name))

\* the ORIGINAL branch of _get_tcx_file / _ensure_tcx after the archive was
\* saved: open it, pick the first .tcx entry and save it; every exception
\* is caught.  Yields [fs, ret] with ret "true" or "false".
ExtractTcx(variant, f, zipPath, tcxPath, disk) ==
    LET loc == Follow(f, Locate(f, zipPath)) IN
    IF ~OsIsFile(f, zipPath) THEN [fs |-> f, ret |-> "false"]
    ELSE LET z == f[loc].data IN
         IF z.fmt # "zip" THEN [fs |-> f, ret |-> "false"]
         ELSE IF TcxEntries(z.body) = <<>> THEN [fs |-> f, ret |-> "false"]
         ELSE Caught(Save(variant, f, tcxPath, TcxEntries(z.body)[1].data, disk))

(***************************************************************************)
(* Platform records and normalized activity records.                       *)
(***************************************************************************)
\* round(n / d) as Python does it for exact halves: to the even neighbour
RoundDiv(n, d) ==
    LET q == n \div d
        r == n % d
    IN  IF 2 * r < d THEN q
        ELSE IF 2 * r > d THEN q + 1
        ELSE IF q % 2 = 0 THEN q ELSE q + 1

\* the fields of one record of get_recent_garmin_activities; distanceKm is
\* in hundredths of a kilometre, durationMin in tenths of a minute
ActivityRecord(a, intervals) ==
    [activityId     |-> OrElse(a.activityId, a.activityUUID),
     startTimeLocal |-> a.startTimeLocal,
     activityType   |-> a.typeKey,
     distanceKm     |-> IF IsNil(a.distance) THEN Nil
                        ELSE Some(RoundDiv(Val(a.distance), 10)),
     durationMin    |-> IF IsNil(a.duration) THEN Nil
                        ELSE Some(RoundDiv(Val(a.duration), 6)),
     name           |-> a.activityName,
     intervals      |-> intervals]

\* the condition under which interval extraction is attempted
WantsIntervals_AnyType(a) ==
    Truthy(OrElse(a.activityId, a.activityUUID))

WantsIntervals(a) ==
    Truthy(OrElse(a.activityId, a.activityUUID)) /\ a.typeKey = Some("running")

CacheRoot == PathStr(TRUE, <<"tmp">>)

CacheDir == PathJoin(CacheRoot, CACHE_DIR_NAME)

TcxPath(id) == PathJoin(CacheDir, ToString(id) \o ".tcx")

ZipPath(id) == PathJoin(CacheDir, ToString(id) \o ".zip")

\* json.dumps of the two shapes the fetcher returns
JsonError(msg) == [top |-> "object", error |-> msg, items |-> <<>>]

JsonList(items) == [top |-> "array", error |-> "", items |-> items]

(***************************************************************************)
(* The platform (external collaborator): what it can list and return.      *)
(***************************************************************************)
\* startTimeLocal values: a "Y-M-D h:m:s" string with the given numbers, a
\* string of another shape, the empty string, a JSON number, or absent
TsStr(y, mo, d, h, mi, s) == [tag |-> "str", f |-> <<y, mo, d, h, mi, s>>]

NoStart == [tag |-> "none", f |-> <<>>]

EmptyStart == [tag |-> "empty", f |-> <<>>]

TextStart == [tag |-> "text", f |-> <<>>]

NumStart == [tag |-> "num", f |-> <<>>]

RawActivity(id, uuid, type, start, dist, dur, name) ==
    [activityId |-> id, activityUUID |-> uuid, typeKey |-> type,
     startTimeLocal |-> start, distance |-> dist, duration |-> dur,
     activityName |-> name]

MorningRun ==
    RawActivity(Some(11), Nil, Some("running"), TsStr(2024, 3, 4, 7, 0, 0),
                Some(10005), Some(3015), Some("Morning Run"))

FridayRun ==
    RawActivity(Some(12), Nil, Some("running"), TsStr(2024, 3, 1, 18, 0, 0),
                Some(5000), Some(1500), Some("Friday Run"))

Ride ==
    RawActivity(Some(13), Nil, Some("cycling"), TsStr(2024, 3, 4, 9, 0, 0),
                Some(30000), Some(3600), Some("Ride"))

NoIdRun ==
    RawActivity(Some(0), Nil, Some("running"), TsStr(2024, 3, 4, 8, 0, 0),
                Nil, Nil, Nil)

OldRun ==
    RawActivity(Nil, Some(15), Some("running"), TsStr(2024, 2, 20, 8, 0, 0),
                Some(8000), Some(2400), Some("Old Run"))

OddDateRun ==
    RawActivity(Some(16), Nil, Some("running"), TextStart,
                Some(8000), Some(2400), Some("Odd Run"))

PlatformActivities == {MorningRun, Ride, NoIdRun, OldRun}

RECURSIVE SeqsUpTo(_, _)
SeqsUpTo(S, n) ==
    IF n = 0 THEN {<<>>}
    ELSE LET shorter == SeqsUpTo(S, n - 1) IN
         shorter \cup {Append(q, x) : q \in {r \in shorter : Len(r) = n - 1}, x \in S}

Listings == SeqsUpTo(PlatformActivities, MaxActs)

TwoLaps ==
    Blob("tcx", << Lap(<<"3", "0", "0">>, <<"1", "0", "0", "0">>, <<"1", "5", "0">>, <<"Active">>),
                   Lap(<<"6", "0">>, <<>>, <<>>, <<>>) >>)

ZeroLaps == Blob("tcx", <<>>)

BadNumberLap == Blob("tcx", << Lap(<<"f", "a", "s", "t">>, <<"1", "0", "0", "0">>, <<>>, <<"Active">>) >>)

BadXml == Blob("badxml", <<>>)

ZipEntry(name, data) == [name |-> name, data |-> data]

ZipWithTcx == Blob("zip", << ZipEntry("activity.fit", Blob("fit", <<>>)),
                             ZipEntry("ACTIVITY.TCX", TwoLaps) >>)

ZipNoTcx == Blob("zip", << ZipEntry("activity.fit", Blob("fit", <<>>)) >>)

ZipEmptyTcx == Blob("zip", << ZipEntry("activity.tcx", EmptyBytes) >>)

NotZip == Blob("fit", <<>>)

Resp(kind, data) == [kind |-> kind, data |-> data]

TcxResponses ==
    { Resp("raise", EmptyBytes), Resp("bytes", EmptyBytes), Resp("object", EmptyBytes),
      Resp("bytes", TwoLaps), Resp("object", TwoLaps), Resp("bytes", ZeroLaps),
      Resp("bytes", BadXml), Resp("bytes", BadNumberLap) }

OriginalResponses ==
    { Resp("raise", EmptyBytes), Resp("object", EmptyBytes),
      Resp("bytes", ZipWithTcx), Resp("bytes", ZipNoTcx),
      Resp("bytes", ZipEmptyTcx), Resp("bytes", NotZip) }

DiskOutcomes == {"ok", "fail"}

Variants == {"A", "B"}

(***************************************************************************)
(* Time.  An instant is [sec, frac]: whole seconds since 2000-01-01        *)
(* 00:00:00 and whether a non-zero sub-second part follows (datetime.now   *)
(* has microseconds, a parsed start time has none).                        *)
(***************************************************************************)
TRIGGER_HOURS == 12

CONTEXT_DAYS == 7

IsLeap(y) == (y % 4 = 0 /\ y % 100 # 0) \/ y % 400 = 0

DaysInMonth(y, m) ==
    IF m = 2 THEN (IF IsLeap(y) THEN 29 ELSE 28)
    ELSE IF m \in {4, 6, 9, 11} THEN 30 ELSE 31

RECURSIVE DaysBeforeMonth(_, _)
DaysBeforeMonth(y, m) ==
    IF m = 1 THEN 0 ELSE DaysBeforeMonth(y, m - 1) + DaysInMonth(y, m - 1)

\* days from 0001-01-01 to the first day of year y (proleptic Gregorian)
DaysBeforeYear(y) ==
    LET n == y - 1 IN 365 * n + n \div 4 - n \div 100 + n \div 400

EpochDays == DaysBeforeYear(2000)

ToSeconds(y, mo, d, h, mi, s) ==
    (DaysBeforeYear(y) + DaysBeforeMonth(y, mo) + (d - 1) - EpochDays) * 86400
        + h * 3600 + mi * 60 + s

Instant(sec, frac) == [sec |-> sec, frac |-> frac]

\* a > b in place of a >= b
AtOrAfter_Strict(a, b) == a.sec > b.sec \/ (a.sec = b.sec /\ a.frac /\ ~b.frac)

\* a >= b on instants
AtOrAfter(a, b) == a.sec > b.sec \/ (a.sec = b.sec /\ (a.frac \/ ~b.frac))

\* datetime.strptime(v, "%Y-%m-%d %H:%M:%S").replace(tzinfo=utc):
\* "ok", "ValueError" (a string that is no valid timestamp) or "TypeError"
\* (not a string at all)
StrPTime(v) ==
    IF v.tag \in {"num", "none"} THEN [res |-> "TypeError", t |-> Instant(0, FALSE)]
    ELSE IF v.tag # "str" THEN [res |-> "ValueError", t |-> Instant(0, FALSE)]
    ELSE LET y == v.f[1]  mo == v.f[2]  d == v.f[3]
             h == v.f[4]  mi == v.f[5]  sc == v.f[6]
         IN  IF /\ y \in 1..9999
                /\ mo \in 1..12
                /\ d >= 1
                /\ d <= DaysInMonth(y, mo)
                /\ h \in 0..23
                /\ mi \in 0..59
                /\ sc \in 0..59
             THEN [res |-> "ok", t |-> Instant(ToSeconds(y, mo, d, h, mi, sc), FALSE)]
             ELSE [res |-> "ValueError", t |-> Instant(0, FALSE)]

\* Python truthiness of a startTimeLocal value
StartTruthy(v) == v.tag \in {"str", "text", "num"}

Minus(now, seconds) == Instant(now.sec - seconds, now.frac)

(***************************************************************************)
(* The time-window filters; identical in both handlers.  Each yields       *)
(* [raised, out].                                                          *)
(***************************************************************************)
\* the loop inserting each retained activity at the front of the result
RECURSIVE WindowLoop_Prepend(_, _, _, _)
WindowLoop_Prepend(activities, cutoff, runsOnly, acc) ==
    IF activities = <<>> THEN [raised |-> FALSE, out |-> acc]
    ELSE LET a == Head(activities)
             rest == Tail(activities)
         IN  IF runsOnly /\ a.activityType # Some("running")
             THEN WindowLoop_Prepend(rest, cutoff, runsOnly, acc)
             ELSE IF ~StartTruthy(a.startTimeLocal)
             THEN WindowLoop_Prepend(rest, cutoff, runsOnly, acc)
             ELSE LET st == StrPTime(a.startTimeLocal) IN
                  IF st.res = "TypeError" THEN [raised |-> TRUE, out |-> <<>>]
                  ELSE IF st.res = "ValueError"
                       THEN WindowLoop_Prepend(rest, cutoff, runsOnly, acc)
                  ELSE IF AtOrAfter(st.t, cutoff)
                       THEN WindowLoop_Prepend(rest, cutoff, runsOnly, <<a>> \o acc)
                       ELSE WindowLoop_Prepend(rest, cutoff, runsOnly, acc)

RECURSIVE WindowLoop(_, _, _, _)
WindowLoop(activities, cutoff, runsOnly, acc) ==
    IF activities = <<>> THEN [raised |-> FALSE, out |-> acc]
    ELSE LET a == Head(activities)
             rest == Tail(activities)
         IN  IF runsOnly /\ a.activityType # Some("running")
             THEN WindowLoop(rest, cutoff, runsOnly, acc)
             ELSE IF ~StartTruthy(a.startTimeLocal)
             THEN WindowLoop(rest, cutoff, runsOnly, acc)
             ELSE LET st == StrPTime(a.startTimeLocal) IN
                  IF st.res = "TypeError" THEN [raised |-> TRUE, out |-> <<>>]
                  ELSE IF st.res = "ValueError" THEN WindowLoop(rest, cutoff, runsOnly, acc)
                  ELSE IF AtOrAfter(st.t, cutoff)
                       THEN WindowLoop(rest, cutoff, runsOnly, Append(acc, a))
                       ELSE WindowLoop(rest, cutoff, runsOnly, acc)

filter_activities_by_date(activities, days, now) ==
    WindowLoop(activities, Minus(now, days * 86400), FALSE, <<>>)

\* the trigger filter without its test of the activity type
filter_recent_runs_AnyType(activities, hours, now) ==
    WindowLoop(activities, Minus(now, hours * 3600), FALSE, <<>>)

filter_recent_runs(activities, hours, now) ==
    WindowLoop(activities, Minus(now, hours * 3600), TRUE, <<>>)

(***************************************************************************)
(* get_recent_garmin_activities, one step per external call.               *)
(* A: garmin_activities.py   B: get_from_garmin.py                         *)
(***************************************************************************)
\* removals that fail during one clearing: none, or one entry
StuckChoices(f, p) ==
    {{}} \cup {{e} : e \in IF OsIsDir(f, p) THEN ListDir(f, Follow(f, Locate(f, p))) ELSE {}}

NoJson == JsonList(<<>>)

Ret(kind, json) == [kind |-> kind, json |-> json]

NoRet == Ret("none", NoJson)

Raised == Ret("raised", NoJson)

IdleCycle(v) ==
    [pc |-> "idle", variant |-> v, acts |-> <<>>, idx |-> 1, out |-> <<>>,
     pend |-> NoRet, ret |-> NoRet, dl |-> <<>>, wipes |-> 0,
     \* history: which external step failed first, whether the per-activity
     \* loop was entered, and the lap file staged for each activity index
     fail |-> "none", looped |-> FALSE, staged |-> {}]

Cur(c) == c.acts[c.idx]

CurId(c) == Val(OrElse(Cur(c).activityId, Cur(c).activityUUID))

\* results.append(...) for the current activity and on to the next one
Appended(c, intervals) ==
    [c EXCEPT !.out = Append(c.out, ActivityRecord(Cur(c), intervals)),
              !.idx = c.idx + 1,
              !.pc = "extract"]

\* leave through the finally block with the given outcome
ToFinally(c, r) == [c EXCEPT !.pend = r, !.pc = "finally"]

Finished(c, r) == [c EXCEPT !.ret = r, !.pc = "done"]

\* lines 216-222 (A), 171-175 (B): credentials from the environment
FStart(p) ==
    /\ cyc[p].pc = "idle"
    /\ \E haveCreds \in BOOLEAN :
         cyc' = [cyc EXCEPT ![p] =
                   IF haveCreds THEN [cyc[p] EXCEPT !.pc = "login"]
                   ELSE Finished([cyc[p] EXCEPT !.fail = "credentials"],
                                 Ret("returned", JsonError("missing credentials")))]
    /\ UNCHANGED fs

\* lines 225-231 (A, inside try/except), 177-178 (B, unguarded)
FLogin(p) ==
    /\ cyc[p].pc = "login"
    /\ \E ok \in BOOLEAN :
         cyc' = [cyc EXCEPT ![p] =
                   IF ok THEN [cyc[p] EXCEPT !.pc = IF cyc[p].variant = "A" THEN "wipe" ELSE "list"]
                   ELSE IF cyc[p].variant = "A"
                        THEN Finished([cyc[p] EXCEPT !.fail = "login"],
                                      Ret("returned", JsonError("authentication failed")))
                        ELSE Finished([cyc[p] EXCEPT !.fail = "login"], Raised)]
    /\ UNCHANGED fs

\* line 236 (A), 186 (B): clear the scratch workspace before the try block
FWipeBefore(p) ==
    /\ cyc[p].pc = "wipe"
    /\ \E stuck \in StuckChoices(fs, CacheDir), partial \in {FALSE} :
         LET w == WipeDirContents(fs, CacheDir, stuck, partial)
             c == [cyc[p] EXCEPT !.wipes = cyc[p].wipes + 1]
         IN /\ fs' = w.fs
            /\ cyc' = [cyc EXCEPT ![p] =
                         IF w.raised THEN Finished(c, Raised)
                         ELSE [c EXCEPT !.pc = IF c.variant = "A" THEN "list" ELSE "extract"]]

\* lines 240-245 (A, guarded, inside the outer try), 179 (B, unguarded and
\* before the workspace is set up)
FList(p) ==
    /\ cyc[p].pc = "list"
    /\ \/ \E l \in Listings :
            cyc' = [cyc EXCEPT ![p] =
                      [cyc[p] EXCEPT !.acts = l,
                                     !.pc = IF cyc[p].variant = "A" THEN "extract" ELSE "wipe"]]
       \/ cyc' = [cyc EXCEPT ![p] =
                    IF cyc[p].variant = "A"
                    THEN ToFinally([cyc[p] EXCEPT !.fail = "listing"],
                                   Ret("returned", JsonError("failed to fetch activities")))
                    ELSE Finished([cyc[p] EXCEPT !.fail = "listing"], Raised)]
    /\ UNCHANGED fs

\* lines 249-273 (A), 191-212 (B): normalize the next activity, or return
\* the list when there is none left
FExtract(p) ==
    /\ cyc[p].pc = "extract"
    /\ LET c == [cyc[p] EXCEPT !.looped = TRUE] IN
       IF c.idx > Len(c.acts)
       THEN /\ cyc' = [cyc EXCEPT ![p] = ToFinally(c, Ret("returned", JsonList(c.out)))]
            /\ UNCHANGED fs
       ELSE IF ~WantsIntervals(Cur(c))
       THEN /\ cyc' = [cyc EXCEPT ![p] = Appended(c, NullIntervals)]
            /\ UNCHANGED fs
       ELSE LET d == MakeDirs(fs, CacheDir) IN
            /\ fs' = d.fs
            /\ cyc' = [cyc EXCEPT ![p] =
                         IF d.raised THEN ToFinally(c, Raised)
                         ELSE [c EXCEPT !.pc = "tcx"]]

\* what follows the TCX download with result r: the file is parsed, or the
\* ORIGINAL export is tried, or (B) the error of the write goes up
TcxDownloaded(p, c, r, resp) ==
    /\ fs' = r.fs
    /\ cyc' = [cyc EXCEPT ![p] =
                 CASE r.ret = "true"   ->
                          [c EXCEPT !.pc = "parse",
                                    !.staged = c.staged \cup {<<c.idx, resp.data>>}]
                   [] r.ret = "false"  -> [c EXCEPT !.pc = "zip"]
                   [] r.ret = "raised" -> ToFinally(c, Raised)]

\* _get_tcx_file lines 126-127 (A), _ensure_tcx lines 96-97 (B)
FDownloadTcx(p) ==
    /\ cyc[p].pc = "tcx"
    /\ \E resp \in TcxResponses, disk \in DiskOutcomes :
         LET c0 == cyc[p]
             c == [c0 EXCEPT !.dl = Append(c0.dl, <<CurId(c0), "TCX">>)]
         IN TcxDownloaded(p, c, DownloadFile(c.variant, fs, TcxPath(CurId(c)), resp, disk), resp)

\* what follows the ORIGINAL download with result r
OriginalDownloaded(p, c, r) ==
    /\ fs' = r.fs
    /\ cyc' = [cyc EXCEPT ![p] =
                 CASE r.ret = "true"   -> [c EXCEPT !.pc = "unzip"]
                   [] r.ret = "false"  -> Appended(c, NullIntervals)
                   [] r.ret = "raised" -> ToFinally(c, Raised)]

\* _get_tcx_file lines 130-131 (A), _ensure_tcx lines 100-101 (B)
FDownloadOriginal(p) ==
    /\ cyc[p].pc = "zip"
    /\ \E resp \in OriginalResponses, disk \in DiskOutcomes :
         LET c0 == cyc[p]
             c == [c0 EXCEPT !.dl = Append(c0.dl, <<CurId(c0), "ORIGINAL">>)]
         IN OriginalDownloaded(p, c, DownloadFile(c.variant, fs, ZipPath(CurId(c)), resp, disk))

\* what follows the extraction with result r
Unzipped(p, c, r) ==
    /\ fs' = r.fs
    /\ cyc' = [cyc EXCEPT ![p] =
                 IF r.ret = "true"
                 THEN [c EXCEPT !.pc = "parse",
                                !.staged = c.staged \cup
                                    {<<c.idx, r.fs[Locate(r.fs, TcxPath(CurId(c)))].data>>}]
                 ELSE Appended(c, NullIntervals)]

\* _get_tcx_file lines 132-142 (A), _ensure_tcx lines 102-112 (B)
FUnzip(p) ==
    /\ cyc[p].pc = "unzip"
    /\ \E disk \in DiskOutcomes :
         LET c == cyc[p]
         IN Unzipped(p, c, ExtractTcx(c.variant, fs, ZipPath(CurId(c)), TcxPath(CurId(c)), disk))

\* lines 275-289 (A), 214-234 (B): parse the staged lap file, append the record
FParse(p) ==
    /\ cyc[p].pc = "parse"
    /\ cyc' = [cyc EXCEPT ![p] = Appended(cyc[p], ParseTcx(fs, TcxPath(CurId(cyc[p]))))]
    /\ UNCHANGED fs

\* lines 293-299 (A), 239-245 (B): the finally block, then the pending
\* return or exception takes effect
FFinally(p) ==
    /\ cyc[p].pc = "finally"
    /\ \E stuck \in StuckChoices(fs, CacheDir), partial \in {FALSE} :
         LET w == WipeDirContents(fs, CacheDir, stuck, partial)
             c == [cyc[p] EXCEPT !.wipes = cyc[p].wipes + 1]
         IN /\ fs' = w.fs
            /\ cyc' = [cyc EXCEPT ![p] = Finished(c, IF w.raised THEN Raised ELSE c.pend)]

FetchStep(p) ==
    \/ FStart(p)
    \/ FLogin(p)
    \/ FWipeBefore(p)
    \/ FList(p)
    \/ FExtract(p)
    \/ FDownloadTcx(p)
    \/ FDownloadOriginal(p)
    \/ FUnzip(p)
    \/ FParse(p)
    \/ FFinally(p)

(***************************************************************************)
(* Object storage and the analysis bundle.                                 *)
(***************************************************************************)
EmptyStore == [objs |-> [k \in {} |-> 0], log |-> <<>>]

\* s3_client.put_object: last write wins
PutObject(st, key, body, time) ==
    [objs |-> [k \in (DOMAIN st.objs) \cup {key} |->
                 IF k = key THEN [body |-> body, lastModified |-> time] ELSE st.objs[k]],
     log  |-> Append(st.log, key)]

\* datetime.now().strftime("%Y-%m-%d_%H-%M-%S") and the object key built
\* from it: one key per wall-clock second
AnalysisKey(time) == <<"run-analysis/", time, "_analysis.json">>

\* the sort key x.get("startTimeLocal", ""); the records reaching the sort
\* passed the context filter, so it is a zero-padded timestamp string, which
\* compares as the tuple of its numbers
RECURSIVE TupleLess(_, _)
TupleLess(a, b) ==
    IF a = <<>> THEN b # <<>>
    ELSE IF b = <<>> THEN FALSE
    ELSE IF Head(a) # Head(b) THEN Head(a) < Head(b)
    ELSE TupleLess(Tail(a), Tail(b))

StartKeyLess(x, y) == TupleLess(x.startTimeLocal.f, y.startTimeLocal.f)

\* list.sort(key=..., reverse=True): stable, descending
RECURSIVE InsertDesc(_, _)
InsertDesc(sorted, x) ==
    IF sorted = <<>> THEN <<x>>
    ELSE IF StartKeyLess(Head(sorted), x) THEN <<x>> \o sorted
    ELSE <<Head(sorted)>> \o InsertDesc(Tail(sorted), x)

RECURSIVE SortDesc(_)
SortDesc(q) == IF q = <<>> THEN <<>> ELSE InsertDesc(SortDesc(Front(q)), Last(q))

RunningOnly(activities) == SelectSeq(activities, LAMBDA a : a.activityType = Some("running"))

FirstN(q, n) == SubSeq(q, 1, IF Len(q) < n THEN Len(q) ELSE n)

\* the output object of save_analysis_to_s3
Bundle(variant, time, run, analysis, all_activities, html) ==
    LET running == SortDesc(RunningOnly(all_activities)) IN
    [timestamp |-> time,
     analyzed_run |-> run,
     recent_runs |-> IF variant = "A" THEN FirstN(running, 3) ELSE running,
     analysis |-> analysis,
     suggestion |-> IF variant = "A" THEN Nil ELSE Some(analysis),
     context_activities_count |-> Len(running),
     recent_runs_html |-> IF variant = "B" /\ html # "" THEN Some(html) ELSE Nil]

(***************************************************************************)
(* What get_recent_garmin_activities hands to the handler: it raises, or   *)
(* returns an error object, or a list with one record per listed activity  *)
(* whose intervals are the parsed laps or null.                            *)
(***************************************************************************)
EveningRun ==
    RawActivity(Some(14), Nil, Some("running"), TsStr(2024, 3, 3, 23, 15, 0),
                Some(6000), Some(1800), Some("Evening Run"))

HandlerActivities == {MorningRun, EveningRun, FridayRun, Ride, OldRun, OddDateRun}

FetchedList(listing, withLaps) ==
    JsonList([i \in 1..Len(listing) |->
                ActivityRecord(listing[i],
                               IF i \in withLaps
                               THEN Intervals([j \in 1..Len(TwoLaps.body) |->
                                                  IntervalRow(TwoLaps.body[j])])
                               ELSE NullIntervals)])

FetchReturns ==
    UNION { { Ret("returned", FetchedList(l, w)) :
                w \in SUBSET {i \in 1..Len(l) : WantsIntervals(l[i])} } :
            l \in SeqsUpTo(HandlerActivities, MaxActs) } \cup
    { Ret("returned", JsonError("failed to fetch activities")) }

FetchOutcomes == FetchReturns \cup {Raised}

(***************************************************************************)
(* lambda_handler, one step per external call.                             *)
(* A: lambda/garmin_analyzer/handler.py  B: src/lambda/.../handler.py      *)
(***************************************************************************)
HResp(kind, status, runs, total) ==
    [kind |-> kind, status |-> status, runs_analyzed |-> runs,
     total_activities_fetched |-> total]

NoResp == HResp("none", 0, 0, 0)

HRaised == HResp("raised", 0, 0, 0)

IdleHandler(v, cfg) ==
    [pc |-> "start", variant |-> v, config |-> cfg,
     raw |-> <<>>, all |-> <<>>, recent |-> <<>>, plan |-> "", context |-> "",
     html |-> "", analysis |-> "", run |-> 1, results |-> <<>>,
     resp |-> NoResp,
     \* history of the invocation: the external calls made, whether one of
     \* them failed, and the outcome of the trigger filter
     calls |-> <<>>, failed |-> FALSE, trig |-> "none"]

Called(h, what) == [h EXCEPT !.calls = Append(h.calls, what)]

HDone(h, r) == [h EXCEPT !.pc = "done", !.resp = r]

HFail(h) == HDone([h EXCEPT !.failed = TRUE], HRaised)

CallCount(h, what) == Len(SelectSeq(h.calls, LAMBDA c : c = what))

\* the language-model invocation just made has failed (recorded in the
\* history of the invocation, right after the call)
ModelFailed(h) == Called(h, "model failure")

\* the response when no run is in the trigger window: A lines 306-313,
\* B lines 299-306
\* the no-run response reporting the activities in context as analyzed
NoRunsResponse_CountsContext(h) ==
    HResp("returned", 200, Len(h.all), IF h.variant = "A" THEN Len(h.all) ELSE Len(h.raw))

NoRunsResponse(h) ==
    HResp("returned", 200, 0, IF h.variant = "A" THEN Len(h.all) ELSE Len(h.raw))

\* the response after the analysis: A lines 347-355, B lines 324-333
AnalyzedResponse(h, results) ==
    IF h.variant = "A"
    THEN HResp("returned", 200, Len(results), Len(h.all))
    ELSE HResp("returned", 200, Len(h.recent), Len(h.raw))

\* whether another trigger run is analyzed and saved: A loops over
\* recent_runs (line 325), B handles recent_runs[0] only (line 319)
\* every handler looping over the trigger runs
MoreRuns_BothVariants(h) == h.run < Len(h.recent)

MoreRuns(h) == h.variant = "A" /\ h.run < Len(h.recent)

\* A lines 262-270: the required identifiers; B has no such check (266-271)
HStart ==
    /\ hnd.pc = "start"
    /\ hnd' = IF hnd.variant = "A" /\ ~(hnd.config.secretArn /\ hnd.config.bucket)
              THEN HDone(hnd, HRaised)
              ELSE [hnd EXCEPT !.pc = "secret"]
    /\ UNCHANGED <<store, clock>>

\* get_garmin_credentials and set_garmin_env_credentials
HSecret ==
    /\ hnd.pc = "secret"
    /\ \E ok \in BOOLEAN :
         hnd' = IF ok /\ hnd.config.secretArn
                THEN [Called(hnd, "secrets") EXCEPT !.pc = "fetch"]
                ELSE HFail(Called(hnd, "secrets"))
    /\ UNCHANGED <<store, clock>>

\* A lines 278-295, B lines 277-291: fetch, decode, reject an error object
HFetch ==
    /\ hnd.pc = "fetch"
    /\ \E r \in FetchOutcomes :
         LET h == Called(hnd, "platform") IN
         hnd' = IF r.kind = "raised" THEN HFail(h)
                ELSE IF r.json.top = "object"
                THEN HDone([h EXCEPT !.failed = TRUE], HResp("returned", 500, 0, 0))
                ELSE [h EXCEPT !.raw = r.json.items, !.pc = "context"]
    /\ UNCHANGED <<store, clock>>

\* A line 298, B line 293
HContext ==
    /\ hnd.pc = "context"
    /\ LET r == filter_activities_by_date(hnd.raw, CONTEXT_DAYS, Instant(clock, FALSE)) IN
       hnd' = IF r.raised THEN HDone(hnd, HRaised)
              ELSE [hnd EXCEPT !.all = r.out, !.pc = "trigger"]
    /\ UNCHANGED <<store, clock>>

\* A lines 302-313, B lines 296-306
HTrigger ==
    /\ hnd.pc = "trigger"
    /\ LET r == filter_recent_runs(hnd.all, TRIGGER_HOURS, Instant(clock, FALSE)) IN
       hnd' = IF r.raised THEN HDone(hnd, HRaised)
              ELSE IF r.out = <<>>
              THEN HDone([hnd EXCEPT !.trig = "empty"], NoRunsResponse(hnd))
              ELSE [hnd EXCEPT !.recent = r.out, !.trig = "runs", !.pc = "plan"]
    /\ UNCHANGED <<store, clock>>

\* get_training_plan: the plan, the default text on NoSuchKey, or it raises
HPlan ==
    /\ hnd.pc = "plan"
    /\ \E outcome \in {"found", "NoSuchKey", "error"} :
         LET h == Called(hnd, "storage read") IN
         hnd' = IF outcome = "error" \/ ~hnd.config.bucket THEN HFail(h)
                ELSE [h EXCEPT !.plan = IF outcome = "found" THEN "training plan"
                                        ELSE "No specific training plan provided.",
                               !.pc = IF h.variant = "A" THEN "analyze" ELSE "html"]
    /\ UNCHANGED <<store, clock>>

\* B lines 309-310, format_runs_as_html_bedrock: a ClientError is replaced
\* by a fixed listing, any other failure propagates
HHtml ==
    /\ hnd.pc = "html"
    /\ \E outcome \in {"markup", "empty", "ClientError", "error"} :
         LET h == Called(hnd, "model") IN
         hnd' = CASE outcome = "markup" ->
                       [h EXCEPT !.html = "<ul>model listing</ul>", !.pc = "analyze"]
                  [] outcome = "empty" ->
                       [h EXCEPT !.html = "<ul><li>No runs.</li></ul>", !.pc = "analyze"]
                  [] outcome = "ClientError" ->
                       [ModelFailed(h) EXCEPT
                            !.html = "<ul><li>Run list unavailable.</li></ul>",
                            !.failed = TRUE, !.pc = "analyze"]
                  [] outcome = "error" -> HFail(ModelFailed(h))
    /\ UNCHANGED <<store, clock>>

\* analyze_runs_with_claude: A lines 331-336 (once per run of the loop),
\* B lines 313-317 (once)
HAnalyze ==
    /\ hnd.pc = "analyze"
    /\ \E ok \in BOOLEAN :
         LET h == Called(hnd, "model") IN
         hnd' = IF ok THEN [h EXCEPT !.analysis = "coach analysis", !.pc = "save"]
                ELSE HFail(ModelFailed(h))
    /\ UNCHANGED <<store, clock>>

\* save_analysis_to_s3 and what follows it: A lines 339-355 (next run of
\* the loop, or the response), B lines 319-333
HSave ==
    /\ hnd.pc = "save"
    /\ \E ok \in BOOLEAN :
         LET h == Called(hnd, "storage write")
             trigger == h.recent[h.run]
             body == Bundle(h.variant, clock, trigger, h.analysis, h.all, h.html)
             key == AnalysisKey(clock)
             results == Append(h.results, key)
         IN  IF ~ok
             THEN /\ hnd' = HFail(h)
                  /\ UNCHANGED store
             ELSE /\ store' = PutObject(store, key, body, clock)
                  /\ hnd' = IF MoreRuns(h)
                            THEN [h EXCEPT !.results = results, !.run = h.run + 1,
                                           !.pc = "analyze"]
                            ELSE HDone([h EXCEPT !.results = results],
                                       AnalyzedResponse(h, results))
    /\ UNCHANGED clock

\* time passes while an invocation runs
Tick ==
    /\ hnd.pc \notin {"start", "done"}
    /\ clock < ToSeconds(2024, 3, 4, 10, 30, 0) + MaxTicks
    /\ clock' = clock + 1
    /\ UNCHANGED <<hnd, store>>

HandlerStep ==
    \/ HStart
    \/ HSecret
    \/ HFetch
    \/ HContext
    \/ HTrigger
    \/ HPlan
    \/ HHtml
    \/ HAnalyze
    \/ HSave
    \/ Tick

(***************************************************************************)
(* Decoded JSON values as the web application sees them.  A text is a      *)
(* sequence of pieces: a piece is a blank " ", one of the characters      *)
(* & < > " ' or a run of other characters.  Floats of the model are        *)
(* multiples of 0.5 (exact in binary floating point), held in tenths.      *)
(***************************************************************************)
JV(t, pieces, n, items) == [t |-> t, pieces |-> pieces, n |-> n, items |-> items]

Absent == JV("absent", <<>>, 0, <<>>)

JNull == JV("null", <<>>, 0, <<>>)

JStr(pieces) == JV("str", pieces, 0, <<>>)

JInt(n) == JV("int", <<>>, n, <<>>)

JFloat(tenths) == JV("float", <<>>, tenths, <<>>)

JList(items) == JV("list", <<>>, 0, items)

\* truth value of a decoded value (a missing key reads as None)
JTruthy(v) ==
    CASE v.t \in {"absent", "null"} -> FALSE
      [] v.t = "str"  -> v.pieces # <<>>
      [] v.t \in {"int", "float"} -> v.n # 0
      [] v.t = "list" -> v.items # <<>>

\* "".join(pieces)
RECURSIVE Concat(_)
Concat(pieces) == IF pieces = <<>> THEN "" ELSE Head(pieces) \o Concat(Tail(pieces))

\* str.split(): the maximal runs of non-blank characters
RECURSIVE SplitWords(_, _, _)
SplitWords(pieces, cur, acc) ==
    IF pieces = <<>> THEN (IF cur = "" THEN acc ELSE Append(acc, cur))
    ELSE IF Head(pieces) = " "
         THEN SplitWords(Tail(pieces), "", IF cur = "" THEN acc ELSE Append(acc, cur))
         ELSE SplitWords(Tail(pieces), cur \o Head(pieces), acc)

\* html.escape(text)
RECURSIVE HtmlEscape(_)
HtmlEscape(pieces) ==
    IF pieces = <<>> THEN ""
    ELSE (CASE Head(pieces) = "&"  -> "&amp;"
            [] Head(pieces) = "<"  -> "&lt;"
            [] Head(pieces) = ">"  -> "&gt;"
            [] Head(pieces) = "\"" -> "&quot;"
            [] Head(pieces) = "'"  -> "&#x27;"
            [] OTHER -> Head(pieces)) \o HtmlEscape(Tail(pieces))

\* a value inside an f-string: str(value)
StrOf(v) ==
    CASE v.t = "str"   -> Concat(v.pieces)
      [] v.t = "int"   -> ToString(v.n)
      [] v.t = "float" -> ToString(v.n \div 10) \o "." \o ToString(v.n % 10)
      [] v.t = "null"  -> "None"

\* format specification 02d
Pad2(k) == IF k < 10 THEN "0" \o ToString(k) ELSE ToString(k)

\* one element of a recent_runs list: a JSON object with the four fields
\* the listing reads, or something that is no object
RunObject(start, name, dist, dur) ==
    [dict |-> TRUE, startTimeLocal |-> start, name |-> name,
     distanceKm |-> dist, durationMin |-> dur]

NotAnObject ==
    [dict |-> FALSE, startTimeLocal |-> Absent, name |-> Absent,
     distanceKm |-> Absent, durationMin |-> Absent]

(***************************************************************************)
(* format_runs_fallback, src/src/web_app/app.py lines 56-73.               *)
(* Results are [raised, html].                                             *)
(***************************************************************************)
Rendered(text) == [raised |-> FALSE, html |-> text]

Raises == [raised |-> TRUE, html |-> ""]

\* line 62: (r.get("startTimeLocal") or "").split()[0] or "?"
DateText(start) ==
    IF ~JTruthy(start) THEN Raises                      \* "".split()[0]
    ELSE IF start.t # "str" THEN Raises                 \* no split on a number or a list
    ELSE IF SplitWords(start.pieces, "", <<>>) = <<>> THEN Raises
    ELSE Rendered(SplitWords(start.pieces, "", <<>>)[1])

\* line 63: html.escape(r.get("name") or "Run")
NameText(name) ==
    IF ~JTruthy(name) THEN Rendered("Run")
    ELSE IF name.t # "str" THEN Raises
    ELSE Rendered(HtmlEscape(name.pieces))

\* line 64: r.get("distanceKm", "?") inside the f-string
DistText(dist) == IF dist.t = "absent" THEN "?" ELSE StrOf(dist)

\* the duration with the minutes divided into hours and minutes
DurText_HoursMinutes(dur) ==
    IF dur.t = "int" THEN ToString(dur.n \div 60) \o ":" \o Pad2(dur.n % 60)
    ELSE IF dur.t = "float"
    THEN ToString((dur.n \div 10) \div 60) \o ":" \o Pad2((dur.n \div 10) % 60)
    ELSE "?"

\* lines 65-70: int(dur_min), a colon, the fraction of a minute in seconds
DurText(dur) ==
    IF dur.t = "int" THEN ToString(dur.n) \o ":" \o Pad2(0)
    ELSE IF dur.t = "float"
    THEN ToString(dur.n \div 10) \o ":" \o Pad2(((dur.n % 10) * 60) \div 10)
    ELSE "?"

\* line 71, given the date and the name
ItemLine(date, name, r) ==
    IF date.raised \/ name.raised THEN Raises
    ELSE Rendered("<li>" \o date.html \o " - " \o name.html \o ", " \o
                  DistText(r.distanceKm) \o " km, " \o DurText(r.durationMin) \o
                  ", avg HR N/A</li>")

\* lines 62-71 for one element of the list
FallbackItem(r) ==
    IF ~r.dict THEN Raises                              \* no get on it
    ELSE ItemLine(DateText(r.startTimeLocal), NameText(r.name), r)

\* the loop of lines 61-71 over the elements left, acc the parts so far
RECURSIVE FallbackLoop(_, _)
FallbackNext(item, rest, acc) ==
    IF item.raised THEN Raises ELSE FallbackLoop(rest, acc \o item.html)

FallbackLoop(items, acc) ==
    IF items = <<>> THEN Rendered(acc \o "</ul>")
    ELSE FallbackNext(FallbackItem(Head(items)), Tail(items), acc)

\* the listing without the cut at fifteen runs
format_runs_fallback_NoLimit(recent_runs) ==
    IF ~JTruthy(recent_runs) THEN Rendered("<ul><li>No recent runs.</li></ul>")
    ELSE IF recent_runs.t # "list" THEN Raises
    ELSE FallbackLoop(recent_runs.items, "<ul>")

format_runs_fallback(recent_runs) ==
    IF ~JTruthy(recent_runs) THEN Rendered("<ul><li>No recent runs.</li></ul>")
    ELSE IF recent_runs.t # "list" THEN Raises          \* slicing or r.get fails
    ELSE FallbackLoop(FirstN(recent_runs.items, 15), "<ul>")

(***************************************************************************)
(* Harness for the clearing routine: it is called with arbitrary path      *)
(* strings on arbitrary small filesystems.                                 *)
(***************************************************************************)

LinkEntry == [kind |-> "link", data |-> NoData]

StaleTcx == Blob("tcx", <<Lap(<<"9", "0">>, <<"2", "0", "0">>, <<>>, <<"Active">>)>>)

MkFs(S) == [ap \in {e[1] : e \in S} |-> (CHOOSE e \in S : e[1] = ap)[2]]

BaseTree ==
    { <<<<"tmp">>, DirEntry>>, <<<<"tmp", "data">>, DirEntry>>,
      <<<<"tmp", "data", "keep.txt">>, FileEntry(Blob("text", <<>>))>>,
      <<<<"var">>, DirEntry>>, <<<<"var", "task">>, DirEntry>> }

ScratchDir == { <<<<"tmp", ".fitcache">>, DirEntry>> }

ScratchFiles ==
    { <<<<"tmp", ".fitcache", "11.tcx">>, FileEntry(StaleTcx)>>,
      <<<<"tmp", ".fitcache", "sub">>, DirEntry>>,
      <<<<"tmp", ".fitcache", "sub", "12.zip">>, FileEntry(StaleTcx)>>,
      <<<<"tmp", ".fitcache", "lnk">>, LinkEntry>> }

StaleFile == { <<<<"tmp", ".fitcache", "11.tcx">>, FileEntry(StaleTcx)>> }

ScratchAsFile == { <<<<"tmp", ".fitcache">>, FileEntry(StaleTcx)>> }

CwdScratch ==
    { <<<<"var", "task", ".fitcache">>, DirEntry>>,
      <<<<"var", "task", ".fitcache", "13.tcx">>, FileEntry(StaleTcx)>> }

InitialFilesystems ==
    { MkFs(BaseTree \cup a \cup b) :
        a \in {{}, ScratchDir, ScratchDir \cup ScratchFiles, ScratchAsFile},
        b \in {{}, CwdScratch} }

WipeArgs ==
    { EmptyStr,
      PathStr(TRUE, <<>>),
      PathStr(TRUE, <<"tmp">>),
      PathStr(TRUE, <<"tmp", "data">>),
      PathStr(TRUE, <<"tmp", ".fitcache">>),
      PathStr(TRUE, <<"tmp", ".fitcache", "">>),
      PathStr(TRUE, <<"tmp", ".fitcache", ".">>),
      PathStr(TRUE, <<"tmp", ".fitcache", "..">>),
      PathStr(TRUE, <<"tmp", ".fitcache", "sub">>),
      PathStr(TRUE, <<"tmp", ".fitcache", "11.tcx">>),
      PathStr(TRUE, <<"tmp", ".fitcache", "lnk", ".fitcache">>),
      PathStr(TRUE, <<"tmp", "data", "..", ".fitcache">>),
      PathStr(TRUE, <<"tmp", "new", "..", ".fitcache">>),
      PathStr(TRUE, <<"tmp", ".fitcache2">>),
      PathStr(TRUE, <<"tmp", "fitcache">>),
      PathStr(FALSE, <<".fitcache">>),
      PathStr(FALSE, <<"..">>),
      PathStr(FALSE, <<".", ".fitcache", "..">>) }

NoCall == PathStr(FALSE, <<"?nocall?">>)

WipeInit ==
    /\ wipeArg = NoCall
    /\ fsPre = fs
    /\ wipeCalls = 0

\* one call of _cleanup_cache_dir / _wipe_dir_contents
WipeCall ==
    /\ wipeCalls < MaxWipeCalls
    /\ \E p \in WipeArgs :
         \E stuck \in StuckChoices(fs, p), partial \in BOOLEAN :
           /\ fs' = WipeDirContents(fs, p, stuck, partial).fs
           /\ wipeArg' = p
    /\ fsPre' = fs
    /\ wipeCalls' = wipeCalls + 1

(***************************************************************************)
(* Harness for the filters: each is applied once to an arbitrary short     *)
(* list, at an arbitrary instant of the second 2024-03-04 10:30:00 UTC.    *)
(* The name of a record tells how long before that second it starts.       *)
(***************************************************************************)
FRec(type, start, name) == [activityType |-> type, startTimeLocal |-> start, name |-> name]

FilterUniverse ==
    { FRec(Some("running"), TsStr(2024, 2, 26, 10, 30, 1), "7d-1s"),
      FRec(Some("running"), TsStr(2024, 2, 26, 10, 30, 0), "7d"),
      FRec(Some("cycling"), TsStr(2024, 2, 26, 10, 29, 59), "7d+1s"),
      FRec(Some("running"), TsStr(2024, 3, 3, 22, 30, 0), "12h"),
      FRec(Some("running"), TsStr(2024, 3, 3, 22, 29, 59), "12h+1s"),
      FRec(Some("cycling"), TsStr(2024, 3, 4, 10, 0, 0), "30min"),
      FRec(Nil, TsStr(2024, 3, 4, 10, 0, 0), "30min"),
      FRec(Some("running"), TsStr(2024, 2, 30, 10, 0, 0), "no such day"),
      FRec(Some("running"), TextStart, "not a timestamp"),
      FRec(Some("running"), EmptyStart, "empty"),
      FRec(Some("running"), NoStart, "missing"),
      FRec(Some("running"), NumStart, "a number"),
      FRec(Some("cycling"), NumStart, "a number") }

\* seconds between the start named and 2024-03-04 10:30:00, from the calendar
AgeSeconds(name) ==
    CASE name = "7d-1s"  -> 604799
      [] name = "7d"     -> 604800
      [] name = "7d+1s"  -> 604801
      [] name = "12h"    -> 43200
      [] name = "12h+1s" -> 43201
      [] name = "30min"  -> 1800

HasAge(a) == a.name \in {"7d-1s", "7d", "7d+1s", "12h", "12h+1s", "30min"}

FilterNows == { Instant(ToSeconds(2024, 3, 4, 10, 30, 0), frac) : frac \in BOOLEAN }

IdleFilter(in) ==
    [in |-> in, in0 |-> in, kind |-> "none", win |-> 0,
     now |-> Instant(0, FALSE), res |-> [raised |-> FALSE, out |-> <<>>]]

ApplyContextFilter ==
    /\ flt.kind = "none"
    /\ \E now \in FilterNows, days \in {CONTEXT_DAYS, 1} :
         flt' = [flt EXCEPT !.kind = "date", !.win = days, !.now = now,
                            !.res = filter_activities_by_date(flt.in, days, now)]

ApplyTriggerFilter ==
    /\ flt.kind = "none"
    /\ \E now \in FilterNows, hours \in {TRIGGER_HOURS, 1} :
         flt' = [flt EXCEPT !.kind = "runs", !.win = hours, !.now = now,
                            !.res = filter_recent_runs(flt.in, hours, now)]

(***************************************************************************)
(* Interval rows: _format_pace, _calculate_pace, _format_duration and      *)
(* _format_interval_row of fetcher A; _fmt_pace, _pace_from, _format_hms   *)
(* and _add_row of fetcher B are the same code under other names.          *)
(* Seconds are a JSON-like value: None, a text, an int, or a float held in *)
(* tenths.  A pace in min/km is a fraction [n, d] (the float n/d); metres, *)
(* m/s and beats are whole numbers, as float() of the lap texts gives.     *)
(* Python's round is round-half-to-even; the inputs used are exact in      *)
(* binary at a tie or away from it, where float and exact results agree.   *)
(***************************************************************************)
Fraction(n, d) == [n |-> n, d |-> d]

\* divmod, divmod and the two f-strings of _format_duration
Hms(secs) ==
    IF secs \div 3600 > 0
    THEN ToString(secs \div 3600) \o ":" \o Pad2((secs % 3600) \div 60)
           \o ":" \o Pad2((secs % 3600) % 60)
    ELSE ToString((secs % 3600) \div 60) \o ":" \o Pad2((secs % 3600) % 60)

\* int(round(seconds))
RoundSeconds(seconds) ==
    IF seconds.t = "int" THEN seconds.n ELSE RoundDiv(seconds.n, 10)

FormatDuration_Truncates(seconds) ==
    IF seconds.t \notin {"int", "float"} THEN "?"
    ELSE Hms(IF seconds.t = "int" THEN seconds.n ELSE seconds.n \div 10)

FormatDuration(seconds) ==
    IF seconds.t \notin {"int", "float"} THEN "?"
    ELSE Hms(RoundSeconds(seconds))

FormatPace_Carries(min_per_km) ==
    IF IsNil(min_per_km) THEN Nil
    ELSE LET n == Val(min_per_km).n
             d == Val(min_per_km).d
             secs == RoundDiv((n % d) * 60, d)
         IN Some(ToString(n \div d + secs \div 60) \o ":" \o Pad2(secs % 60)
                   \o " min/km")

\* mins = int(v); secs = int(round((v - mins) * 60))
FormatPace(min_per_km) ==
    IF IsNil(min_per_km) THEN Nil
    ELSE LET n == Val(min_per_km).n
             d == Val(min_per_km).d
         IN Some(ToString(n \div d) \o ":" \o Pad2(RoundDiv((n % d) * 60, d))
                   \o " min/km")

\* (dur_s / 60.0) / (dist_m / 1000.0), or None
CalculatePace(dist_m, dur_s) ==
    IF IsNil(dist_m) \/ IsNil(dur_s) THEN Nil
    ELSE IF Val(dist_m) <= 0 \/ Val(dur_s) <= 0 THEN Nil
    ELSE Some(Fraction(Val(dur_s) * 1000, 60 * Val(dist_m)))

\* str(round(dist_m / 1000.0, 2)): the shortest text of the float, which
\* has at least one decimal
KmText(dist_m) ==
    LET h == RoundDiv(dist_m, 10) IN
    ToString(h \div 100) \o "." \o
      (IF h % 100 = 0 THEN "0"
       ELSE IF h % 10 = 0 THEN ToString((h % 100) \div 10)
       ELSE Pad2(h % 100))

\* pace from the speed when there is one, else from distance and time
RowPace(dist_m, dur_s, avg_speed_mps) ==
    IF ~IsNil(avg_speed_mps) /\ Val(avg_speed_mps) > 0
    THEN Some(Fraction(1000, 60 * Val(avg_speed_mps)))
    ELSE CalculatePace(dist_m, dur_s)

\* _format_pace(pace) or "?"
OrQuestion(text) == IF IsNil(text) THEN "?" ELSE Val(text)

\* the f-string puts str(distance_km) before "km": "None" when it is None
FormatIntervalRow(label, dist_m, dur_s, avg_speed_mps, avg_hr) ==
    label \o " - "
      \o (IF IsNil(dist_m) THEN "None" ELSE KmText(Val(dist_m))) \o "km - "
      \o FormatDuration(IF IsNil(dur_s) THEN JNull ELSE JFloat(10 * Val(dur_s)))
      \o " (duration) - "
      \o OrQuestion(FormatPace(RowPace(dist_m, dur_s, avg_speed_mps)))
      \o " pace - "
      \o (IF IsNil(avg_hr) THEN "?" ELSE ToString(Val(avg_hr))) \o " HR"

\* the arguments of one application of a formatter
FormatArgs(label, dist_m, dur_s, avg_speed_mps, avg_hr, seconds, min_per_km) ==
    [label |-> label, dist_m |-> dist_m, dur_s |-> dur_s,
     avg_speed_mps |-> avg_speed_mps, avg_hr |-> avg_hr,
     seconds |-> seconds, min_per_km |-> min_per_km]

DurationArgs(seconds) == FormatArgs("", Nil, Nil, Nil, Nil, seconds, Nil)

PaceArgs(min_per_km) == FormatArgs("", Nil, Nil, Nil, Nil, JNull, min_per_km)

RowArgs(label, dist_m, dur_s, avg_speed_mps, avg_hr) ==
    FormatArgs(label, dist_m, dur_s, avg_speed_mps, avg_hr, JNull, Nil)

\* a formatter's result: None, or a text
NoText == [none |-> TRUE, text |-> ""]

TextResult(t) == [none |-> FALSE, text |-> t]

IdleFormat(fn, arg) == [fn |-> fn, arg |-> arg, done |-> FALSE, out |-> NoText]

\* seconds handed to _format_duration: non-numbers, ints, floats (tenths)
DurationInputs ==
    {JNull, JStr(<<"3725">>)}
      \cup {JInt(n) : n \in {0, 59, 60, 125, 3599, 3600, 3725, 86400}}
      \cup {JFloat(t) : t \in {4, 5, 6, 15, 25, 594, 595, 596,
                               35994, 35995, 36000, 37254, 37255}}

\* paces handed to _format_pace, in thousandths of a minute per km
PaceInputs ==
    {Nil} \cup {Some(Fraction(n, 1000)) :
                  n \in {0, 500, 4008, 4009, 5125, 5375, 5500, 5625, 5875,
                         5990, 5992, 5999, 10000, 59999}}

RowInputs ==
    {RowArgs(label, dist_m, dur_s, speed, hr) :
        label \in {"Active", "lap"},
        dist_m \in {Nil, Some(0), Some(400), Some(1000), Some(1609)},
        dur_s \in {Nil, Some(90), Some(300), Some(3600)},
        speed \in {Nil, Some(4)},
        hr \in {Nil, Some(150)}}

FormatInputs ==
    {IdleFormat("duration", DurationArgs(s)) : s \in DurationInputs}
      \cup {IdleFormat("pace", PaceArgs(v)) : v \in PaceInputs}
      \cup {IdleFormat("row", a) : a \in RowInputs}

ApplyFormatDuration ==
    /\ formatted.fn = "duration" /\ ~formatted.done
    /\ formatted' = [formatted EXCEPT !.done = TRUE,
                          !.out = TextResult(FormatDuration(formatted.arg.seconds))]

ApplyFormatPace ==
    /\ formatted.fn = "pace" /\ ~formatted.done
    /\ formatted' = [formatted EXCEPT !.done = TRUE,
                          !.out = LET r == FormatPace(formatted.arg.min_per_km) IN
                                  IF IsNil(r) THEN NoText ELSE TextResult(Val(r))]

ApplyFormatRow ==
    /\ formatted.fn = "row" /\ ~formatted.done
    /\ formatted' = [formatted EXCEPT !.done = TRUE,
                          !.out = TextResult(FormatIntervalRow(
                                     formatted.arg.label, formatted.arg.dist_m, formatted.arg.dur_s,
                                     formatted.arg.avg_speed_mps, formatted.arg.avg_hr))]

(***************************************************************************)
(* The App Runner scheduler (src/src/lambda/apprunner_scheduler/main.py).  *)
(* An instant is <<month, day, hour>> in UTC, year 2024.  Europe/London is *)
(* one hour ahead of UTC from the last Sunday of March, 01:00 UTC, to the  *)
(* last Sunday of October, 01:00 UTC.                                      *)
(***************************************************************************)
RESUME_HOUR == 8

PAUSE_HOUR == 18

Before(a, b) ==
    \/ a[1] < b[1]
    \/ a[1] = b[1] /\ a[2] < b[2]
    \/ a[1] = b[1] /\ a[2] = b[2] /\ a[3] < b[3]

SummerTimeStart == <<3, 31, 1>>

SummerTimeEnd == <<10, 27, 1>>

\* datetime.now(UK_TZ).hour
UkHour(at) ==
    IF ~Before(at, SummerTimeStart) /\ Before(at, SummerTimeEnd)
    THEN (at[3] + 1) % 24
    ELSE at[3]

SchedulerReturn(kind, action, hour) ==
    [kind |-> kind, action |-> action, hour |-> hour]

IdleScheduler(arn, at) ==
    [arn |-> arn, at |-> at, done |-> FALSE, calls |-> <<>>,
     ret |-> SchedulerReturn("none", "", 0)]

\* a service call returns, or raises out of the handler
AfterCall(s, call, action, outcome) ==
    [s EXCEPT !.done = TRUE, !.calls = <<call>>,
              !.ret = IF outcome = "ok" THEN SchedulerReturn("returned", action, 0)
                      ELSE SchedulerReturn("raised", "", 0)]

SchedulerHandler_PausesFromSix(s, outcome) ==
    IF ~s.arn THEN [s EXCEPT !.done = TRUE, !.ret = SchedulerReturn("raised", "", 0)]
    ELSE IF UkHour(s.at) = RESUME_HOUR
         THEN AfterCall(s, "resume_service", "resume", outcome)
    ELSE IF UkHour(s.at) >= PAUSE_HOUR
         THEN AfterCall(s, "pause_service", "pause", outcome)
    ELSE [s EXCEPT !.done = TRUE,
                   !.ret = SchedulerReturn("returned", "none", UkHour(s.at))]

\* lambda_handler: os.environ[...] raises KeyError when the variable is unset
SchedulerHandler(s, outcome) ==
    IF ~s.arn THEN [s EXCEPT !.done = TRUE, !.ret = SchedulerReturn("raised", "", 0)]
    ELSE IF UkHour(s.at) = RESUME_HOUR
         THEN AfterCall(s, "resume_service", "resume", outcome)
    ELSE IF UkHour(s.at) = PAUSE_HOUR
         THEN AfterCall(s, "pause_service", "pause", outcome)
    ELSE [s EXCEPT !.done = TRUE,
                   !.ret = SchedulerReturn("returned", "none", UkHour(s.at))]

\* a winter day, the two days the clocks change, a summer day
SchedulerDays == {<<1, 15>>, <<3, 31>>, <<7, 1>>, <<10, 27>>}

SchedulerInstants == {<<d[1], d[2], h>> : d \in SchedulerDays, h \in 0..23}

SchedulerInvoke ==
    /\ ~sch.done
    /\ \E outcome \in {"ok", "raises"} : sch' = SchedulerHandler(sch, outcome)

vars == <<fs, wipeArg, fsPre, wipeCalls, cyc, flt, hnd, store, clock, web, fb, formatted, sch>>

\* no request served yet
NoPage ==
    [app |-> "", storage |-> "", status |-> 0, escaped |-> FALSE,
     listing |-> [src |-> "", html |-> ""],
     analysis |-> [src |-> "", html |-> ""],
     error |-> "", shown |-> Nil]

IdleWeb(bucket) == [bucket |-> bucket, page |-> NoPage]

IdleFallback(in) == [in |-> in, done |-> FALSE, out |-> Rendered("")]

\* no formatter applied, no scheduler invocation
ToolsIdle ==
    /\ formatted = IdleFormat("duration", DurationArgs(JNull))
    /\ sch = IdleScheduler(TRUE, <<1, 15, 0>>)

toolVars == <<formatted, sch>>

WebIdle ==
    /\ web = IdleWeb(TRUE)
    /\ fb = IdleFallback(JNull)
    /\ ToolsIdle

webVars == <<web, fb, toolVars>>

HandlerIdle ==
    /\ hnd = IdleHandler("A", [secretArn |-> TRUE, bucket |-> TRUE])
    /\ store = EmptyStore
    /\ clock = ToSeconds(2024, 3, 4, 10, 30, 0)

handlerVars == <<hnd, store, clock>>

\* one invocation of either handler, with the required identifiers set or not
InitHandler ==
    /\ fs = MkFs(BaseTree)
    /\ WipeInit
    /\ cyc = [p \in {} |-> IdleCycle("A")]
    /\ flt = IdleFilter(<<>>)
    /\ \E v \in Variants, sa \in BOOLEAN, b \in BOOLEAN :
         hnd = IdleHandler(v, [secretArn |-> sa, bucket |-> b])
    /\ store = EmptyStore
    /\ clock = ToSeconds(2024, 3, 4, 10, 30, 0)
    /\ WebIdle

NextHandler ==
    /\ HandlerStep
    /\ UNCHANGED <<fs, wipeArg, fsPre, wipeCalls, cyc, flt, webVars>>

SpecHandler == InitHandler /\ [][NextHandler]_vars

NoCycles == [p \in {} |-> IdleCycle("A")]

InitFilter ==
    /\ fs = MkFs(BaseTree)
    /\ WipeInit
    /\ cyc = NoCycles
    /\ flt \in {IdleFilter(in) : in \in SeqsUpTo(FilterUniverse, MaxFilterLen)}
    /\ HandlerIdle
    /\ WebIdle

NextFilter ==
    /\ ApplyContextFilter \/ ApplyTriggerFilter
    /\ UNCHANGED <<fs, wipeArg, fsPre, wipeCalls, cyc, handlerVars, webVars>>

SpecFilter == InitFilter /\ [][NextFilter]_vars

InitWipe ==
    /\ fs \in InitialFilesystems
    /\ WipeInit
    /\ cyc = NoCycles
    /\ flt = IdleFilter(<<>>)
    /\ HandlerIdle
    /\ WebIdle

NextWipe == WipeCall /\ UNCHANGED <<cyc, flt, handlerVars, webVars>>

\* one fetch cycle of either variant, on a scratch workspace that may hold
\* files of an earlier cycle
InitFetch ==
    /\ fs \in { MkFs(BaseTree \cup a) :
                  a \in {{}, ScratchDir \cup StaleFile, ScratchAsFile} }
    /\ WipeInit
    /\ \E v \in Variants : cyc = [p \in {1} |-> IdleCycle(v)]
    /\ flt = IdleFilter(<<>>)
    /\ HandlerIdle
    /\ WebIdle

NextFetch ==
    /\ \E p \in DOMAIN cyc : FetchStep(p)
    /\ UNCHANGED <<wipeArg, fsPre, wipeCalls, flt, handlerVars, webVars>>

SpecFetch == InitFetch /\ [][NextFetch]_vars

\* two cycles of the same fetcher in one environment: the platform lists
\* the same single run (or nothing) to both
SharedListing(c) == c.acts \in {<<>>, <<MorningRun>>}

InitFetchPair ==
    /\ fs = MkFs(BaseTree)
    /\ WipeInit
    /\ \E v \in Variants : cyc = [p \in {1, 2} |-> IdleCycle(v)]
    /\ flt = IdleFilter(<<>>)
    /\ HandlerIdle
    /\ WebIdle

NextFetchPair ==
    /\ \E p \in DOMAIN cyc : FetchStep(p) /\ SharedListing(cyc'[p])
    /\ UNCHANGED <<wipeArg, fsPre, wipeCalls, flt, handlerVars, webVars>>

SpecFetchPair == InitFetchPair /\ [][NextFetchPair]_vars

SpecWipe == InitWipe /\ [][NextWipe]_vars

(***************************************************************************)
(* save_analysis_to_s3 on its own: the handler at the point where the      *)
(* context list and the trigger list are known and the first analysis was  *)
(* received, for context lists longer than the listings of SpecHandler.    *)
(***************************************************************************)
\* a morning of four runs, as the platform lists them: latest first
DawnRun ==
    RawActivity(Some(17), Nil, Some("running"), TsStr(2024, 3, 4, 6, 0, 0),
                Some(3000), Some(900), Some("Dawn Run"))

SecondRun ==
    RawActivity(Some(18), Nil, Some("running"), TsStr(2024, 3, 4, 8, 0, 0),
                Some(3000), Some(900), Some("Second Run"))

ThirdRun ==
    RawActivity(Some(19), Nil, Some("running"), TsStr(2024, 3, 4, 9, 0, 0),
                Some(3000), Some(900), Some("Third Run"))

BusyMorning == <<ThirdRun, SecondRun, MorningRun, DawnRun>>

ContextLists ==
    { [i \in 1..Len(l) |-> ActivityRecord(l[i], NullIntervals)] :
        l \in SeqsUpTo({MorningRun, FridayRun, Ride}, MaxSaved) \cup {BusyMorning} }

SaveReady(v, l) ==
    [IdleHandler(v, [secretArn |-> TRUE, bucket |-> TRUE]) EXCEPT
        !.pc = "save",
        !.raw = l,
        !.all = l,
        !.recent = filter_recent_runs(l, TRIGGER_HOURS,
                                      Instant(ToSeconds(2024, 3, 4, 10, 30, 0), FALSE)).out,
        !.trig = "runs",
        !.plan = "training plan",
        !.html = IF v = "B" THEN "<ul>model listing</ul>" ELSE "",
        !.analysis = "coach analysis"]

InitSave ==
    /\ fs = MkFs(BaseTree)
    /\ WipeInit
    /\ cyc = NoCycles
    /\ flt = IdleFilter(<<>>)
    /\ \E v \in Variants, l \in ContextLists :
         /\ SaveReady(v, l).recent # <<>>
         /\ hnd = SaveReady(v, l)
    /\ store = EmptyStore
    /\ clock = ToSeconds(2024, 3, 4, 10, 30, 0)
    /\ WebIdle

NextSave ==
    /\ HSave \/ HAnalyze \/ Tick
    /\ UNCHANGED <<fs, wipeArg, fsPre, wipeCalls, cyc, flt, webVars>>

SpecSave == InitSave /\ [][NextSave]_vars

(***************************************************************************)
(* format_runs_fallback on its own: one application to a decoded           *)
(* recent_runs value.                                                      *)
(***************************************************************************)
Text(pieces) == JStr(pieces)

TestRunOne ==
    RunObject(Text(<<"2026-02-24", " ", "10:00:00">>), Text(<<"Run", " ", "1">>),
              JInt(10), JInt(60))

TestRunTwo ==
    RunObject(Text(<<"2026-02-25", " ", "10:00:00">>), Text(<<"Run", " ", "2">>),
              JInt(15), JInt(90))

HalfMinuteRun ==
    RunObject(Text(<<"2026-02-26", " ", "07:15:00">>),
              Text(<<"Tom", " ", "&", " ", "<", "Jerry", ">">>),
              JFloat(50), JFloat(305))

BareRun == RunObject(Text(<<"2026-02-27T06:00:00">>), JNull, Absent, JNull)

NoStartRun == RunObject(Absent, Text(<<"Run", " ", "3">>), JInt(5), JInt(30))

BlankStartRun == RunObject(Text(<<" ">>), Text(<<"Run", " ", "4">>), JInt(5), JInt(30))

NumberNameRun == RunObject(Text(<<"2026-02-28", " ", "08:00:00">>), JInt(5), JInt(5), JInt(30))

FallbackUniverse ==
    {TestRunOne, TestRunTwo, HalfMinuteRun, BareRun, NoStartRun, BlankStartRun,
     NumberNameRun, NotAnObject}

\* n well-formed runs, the two test runs in turn
LongList(n) == [i \in 1..n |-> IF i % 2 = 1 THEN TestRunOne ELSE TestRunTwo]

FallbackInputs ==
    {JList(l) : l \in SeqsUpTo(FallbackUniverse, MaxFallbackLen)}
      \cup {JList(LongList(n)) : n \in (MaxFallbackLen + 1)..MaxLongList}
      \cup {JNull, Text(<<"abc">>), JInt(0), JInt(5)}

ApplyFallback ==
    /\ ~fb.done
    /\ fb' = [fb EXCEPT !.done = TRUE, !.out = format_runs_fallback(fb.in)]
    /\ UNCHANGED web

InitFallback ==
    /\ fs = MkFs(BaseTree)
    /\ WipeInit
    /\ cyc = NoCycles
    /\ flt = IdleFilter(<<>>)
    /\ HandlerIdle
    /\ web = IdleWeb(TRUE)
    /\ fb \in {IdleFallback(in) : in \in FallbackInputs}
    /\ ToolsIdle

NextFallback ==
    /\ ApplyFallback
    /\ UNCHANGED <<fs, wipeArg, fsPre, wipeCalls, cyc, flt, handlerVars, toolVars>>

SpecFallback == InitFallback /\ [][NextFallback]_vars

\* one application of one of the three interval-row formatters
InitFormat ==
    /\ fs = MkFs(BaseTree)
    /\ WipeInit
    /\ cyc = NoCycles
    /\ flt = IdleFilter(<<>>)
    /\ HandlerIdle
    /\ web = IdleWeb(TRUE)
    /\ fb = IdleFallback(JNull)
    /\ formatted \in FormatInputs
    /\ sch = IdleScheduler(TRUE, <<1, 15, 0>>)

NextFormat ==
    /\ ApplyFormatDuration \/ ApplyFormatPace \/ ApplyFormatRow
    /\ UNCHANGED <<fs, wipeArg, fsPre, wipeCalls, cyc, flt, handlerVars, web, fb, sch>>

SpecFormat == InitFormat /\ [][NextFormat]_vars

\* one invocation of the scheduler at some instant, configured or not
InitScheduler ==
    /\ fs = MkFs(BaseTree)
    /\ WipeInit
    /\ cyc = NoCycles
    /\ flt = IdleFilter(<<>>)
    /\ HandlerIdle
    /\ web = IdleWeb(TRUE)
    /\ fb = IdleFallback(JNull)
    /\ formatted = IdleFormat("duration", DurationArgs(JNull))
    /\ sch \in {IdleScheduler(arn, at) : arn \in BOOLEAN, at \in SchedulerInstants}

NextScheduler ==
    /\ SchedulerInvoke
    /\ UNCHANGED <<fs, wipeArg, fsPre, wipeCalls, cyc, flt, handlerVars, web, fb, formatted>>

SpecScheduler == InitScheduler /\ [][NextScheduler]_vars

(***************************************************************************)
(* The two web applications: R is src/app.py (view index), W is            *)
(* src/src/web_app/app.py (view homepage).  A page is what the view hands  *)
(* to its template: the listing and the analysis part, each with where it  *)
(* came from, the visible error message and the HTTP status; escaped is    *)
(* set when the view raised instead of returning a page.  The template of  *)
(* W is not part of the source: its page is the context homepage passes.   *)
(***************************************************************************)
\* the content of a stored object once read: text that is no JSON, a JSON
\* array, or a JSON object with the fields the views read; other says
\* whether the object has further keys (timestamp, analyzed_run, ...)
WebDoc(kind, other, runs, suggestion, analysis, listing) ==
    [kind |-> kind, other |-> other, recent_runs |-> runs, suggestion |-> suggestion,
     analysis |-> analysis, recent_runs_html |-> listing]

CoachText == Text(<<"Easy", " ", "10", " ", "km", " ", "tomorrow">>)

ModelListing == Text(<<"<ul><li>", "model", " ", "listing", "</li></ul>">>)

BundleWithListing ==
    WebDoc("object", TRUE, JList(<<TestRunOne>>), CoachText, CoachText, ModelListing)

BundleWithoutListing ==
    WebDoc("object", TRUE, JList(<<TestRunOne, TestRunTwo>>), Absent, CoachText, Absent)

BundleEmptyListing ==
    WebDoc("object", TRUE, JList(<<TestRunTwo>>), CoachText, CoachText, Text(<<>>))

NotJson == WebDoc("notjson", FALSE, Absent, Absent, Absent, Absent)

JsonArray == WebDoc("array", FALSE, Absent, Absent, Absent, Absent)

EmptyObject == WebDoc("object", FALSE, Absent, Absent, Absent, Absent)

BundleRunsAsText ==
    WebDoc("object", TRUE, Text(<<"abc">>), CoachText, CoachText, Absent)

BundleRunWithoutStart ==
    WebDoc("object", TRUE, JList(<<NoStartRun>>), CoachText, CoachText, Absent)

BundleNumberAnalysis ==
    WebDoc("object", TRUE, JList(<<TestRunOne>>), JInt(5), JInt(5), ModelListing)

WebDocs ==
    {BundleWithListing, BundleWithoutListing, BundleEmptyListing, NotJson, JsonArray,
     EmptyObject, BundleRunsAsText, BundleRunWithoutStart, BundleNumberAnalysis}

\* what the storage service does during one request
StorageOutcomes == {"ok", "list denied", "list unreachable", "read denied"}

\* the service returns at most 1000 keys for one list request, in key
\* order; the model scales that page to two keys
KeysPerPage == 2

\* the keys in ascending order (a key's variable part is its time stamp)
RECURSIVE KeysInOrder(_)
KeysInOrder(K) ==
    IF K = {} THEN <<>>
    ELSE LET k == CHOOSE k \in K : \A o \in K : k[2] <= o[2]
         IN <<k>> \o KeysInOrder(K \ {k})

\* the Contents of the answer to one list_objects_v2 call
Contents(st, keys) ==
    [i \in 1..(IF Len(keys) < KeysPerPage THEN Len(keys) ELSE KeysPerPage) |->
       [Key |-> keys[i], LastModified |-> st.objs[keys[i]].lastModified]]

ListObjectsV2(st) == Contents(st, KeysInOrder(DOMAIN st.objs))

\* max(objects, key=LastModified) and sorted(..., reverse=True)[0]: the
\* first of the entries with the greatest LastModified
RECURSIVE LatestOf(_, _)
LatestOf(objects, best) ==
    IF objects = <<>> THEN best
    ELSE LatestOf(Tail(objects),
                  IF Head(objects).LastModified > best.LastModified
                  THEN Head(objects) ELSE best)

Latest(objects) == LatestOf(Tail(objects), Head(objects))

(***************************************************************************)
(* W: get_latest_analysis_from_s3 and homepage.                            *)
(***************************************************************************)
NoFields == [recent_runs |-> Absent, suggestion |-> Absent, recent_runs_html |-> Absent]

\* str(e) of the exceptions met, the characters html.escape replaces apart
BucketRequired == <<"S3_BUCKET_NAME environment variable is required">>

ListDenied ==
    <<"An error occurred (AccessDenied) when calling the ListObjectsV2 operation: Access Denied">>

Unreachable == <<"Could not connect to the endpoint URL">>

ReadDenied ==
    <<"An error occurred (AccessDenied) when calling the GetObject operation: Access Denied">>

NoJsonValue == <<"Expecting value: line 1 column 1 (char 0)">>

NoGetOnList == <<"'", "list", "'", " object has no attribute ", "'", "get", "'">>

NoGetOnStr == <<"'", "str", "'", " object has no attribute ", "'", "get", "'">>

NoSplitOnInt == <<"'", "int", "'", " object has no attribute ", "'", "split", "'">>

EmptyMax == <<"max() arg is an empty sequence">>

WNone == [kind |-> "none", data |-> NoFields, key |-> Nil, msg |-> <<>>, s3 |-> FALSE]

WRaised(msg, s3) == [kind |-> "raised", data |-> NoFields, key |-> Nil, msg |-> msg, s3 |-> s3]

WData(key, fields) == [kind |-> "data", data |-> fields, key |-> Some(key), msg |-> <<>>, s3 |-> FALSE]

\* lines 48-53
WFields(doc) ==
    [recent_runs |-> IF doc.recent_runs.t = "absent" THEN JList(<<>>) ELSE doc.recent_runs,
     suggestion |-> IF JTruthy(doc.suggestion) THEN doc.suggestion
                    ELSE IF doc.analysis.t = "absent"
                         THEN Text(<<"No", " ", "suggestion", " ", "yet.">>)
                         ELSE doc.analysis,
     recent_runs_html |-> IF doc.recent_runs_html.t = "absent" THEN JNull
                          ELSE doc.recent_runs_html]

\* lines 42-53, for the key chosen
WRead(key, doc, storage) ==
    IF storage = "read denied"
    THEN WRaised(<<"Failed to read run-analysis/", ToString(key[2]), "_analysis.json: ">>
                   \o ReadDenied, FALSE)
    ELSE IF doc.kind = "notjson"
    THEN WRaised(<<"Failed to read run-analysis/", ToString(key[2]), "_analysis.json: ">>
                   \o NoJsonValue, FALSE)
    ELSE IF doc.kind # "object" THEN WRaised(NoGetOnList, FALSE)   \* data.get, line 49
    ELSE WData(key, WFields(doc))

\* lines 33-53, given the Contents listed
WLatest(st, objects, storage) ==
    IF objects = <<>> THEN WNone
    ELSE WRead(Latest(objects).Key, st.objs[Latest(objects).Key].body, storage)

\* the function without its test for an empty listing: max() of nothing
get_latest_analysis_from_s3_NoEmptyTest(bucket, st, storage) ==
    IF ~bucket THEN WRaised(BucketRequired, TRUE)
    ELSE IF storage = "list denied" THEN WRaised(<<"Failed to list S3: ">> \o ListDenied, TRUE)
    ELSE IF storage = "list unreachable" THEN WRaised(Unreachable, FALSE)
    ELSE IF ListObjectsV2(st) = <<>> THEN WRaised(EmptyMax, FALSE)
    ELSE WLatest(st, ListObjectsV2(st), storage)

get_latest_analysis_from_s3(bucket, st, storage) ==
    IF ~bucket THEN WRaised(BucketRequired, TRUE)
    ELSE IF storage = "list denied" THEN WRaised(<<"Failed to list S3: ">> \o ListDenied, TRUE)
    ELSE IF storage = "list unreachable" THEN WRaised(Unreachable, FALSE)
    ELSE WLatest(st, ListObjectsV2(st), storage)

Page(app, storage, status, listing, analysis, error, shown) ==
    [app |-> app, storage |-> storage, status |-> status, escaped |-> FALSE,
     listing |-> listing, analysis |-> analysis, error |-> error, shown |-> shown]

\* the view raised: the framework answers with its own error page
Escaped(app, storage) == [NoPage EXCEPT !.app = app, !.storage = storage,
                                       !.status = 500, !.escaped = TRUE]

Part(src, html) == [src |-> src, html |-> html]

\* markdown.markdown(suggestion, extensions=["nl2br"]) on one line of plain
\* words; md is what the library does with a value that is no text
Markdown(suggestion, md) ==
    IF suggestion.t = "str"
    THEN (IF Concat(suggestion.pieces) = "" THEN Rendered("")
          ELSE Rendered("<p>" \o Concat(suggestion.pieces) \o "</p>"))
    ELSE IF md = "raises" THEN Raises ELSE Rendered("<p>" \o StrOf(suggestion) \o "</p>")

\* lines 107-111, given the listing and the converted suggestion
WRender(r, storage, listing, suggested) ==
    IF listing.html.raised \/ suggested.raised THEN Escaped("W", storage)
    ELSE Page("W", storage, 200, Part(listing.src, listing.html.html),
              Part("markdown", suggested.html), "", r.key)

\* lines 100-102
WListing(data) ==
    IF JTruthy(data.recent_runs_html)
    THEN [src |-> "field", html |-> Rendered(StrOf(data.recent_runs_html))]
    ELSE [src |-> "fallback", html |-> format_runs_fallback(data.recent_runs)]

\* lines 84-111, given what get_latest_analysis_from_s3 did
HomepageOf(r, storage, md) ==
    IF r.kind = "raised"
    THEN Page("W", storage, IF r.s3 THEN 500 ELSE 200,
              Part("error", "<p>Error loading data: " \o HtmlEscape(r.msg) \o "</p>"),
              Part("none", "<p>No analysis available.</p>"),
              "Error loading data: " \o HtmlEscape(r.msg), Nil)
    ELSE IF r.kind = "none"
    THEN Page("W", storage, 200,
              Part("placeholder", "<ul><li>No runs yet.</li></ul>"),
              Part("placeholder",
                   "<p>No analysis yet. The Lambda will analyze your next run.</p>"),
              "", Nil)
    ELSE WRender(r, storage, WListing(r.data), Markdown(r.data.suggestion, md))

homepage(bucket, st, storage, md) ==
    HomepageOf(get_latest_analysis_from_s3(bucket, st, storage), storage, md)

(***************************************************************************)
(* R: get_latest_analysis, format_recent_runs_html, format_analysis_html,  *)
(* the template and index.  The bucket name of R has a default.            *)
(***************************************************************************)
RNone == [kind |-> "none", doc |-> EmptyObject, key |-> Nil]

RData(key, doc) == [kind |-> "data", doc |-> doc, key |-> Some(key)]

\* lines 55-64 for the entry chosen; every exception ends in return None
RRead(key, doc, storage) ==
    IF storage = "read denied" \/ doc.kind # "object" THEN RNone ELSE RData(key, doc)

RLatest(st, objects, storage) ==
    IF objects = <<>> THEN RNone
    ELSE RRead(Latest(objects).Key, st.objs[Latest(objects).Key].body, storage)

get_latest_analysis(st, storage) ==
    IF storage \in {"list denied", "list unreachable"} THEN RNone
    ELSE RLatest(st, ListObjectsV2(st), storage)

\* truth value of the decoded object: it has a key
DictTruthy(doc) ==
    \/ doc.other
    \/ \E v \in {doc.recent_runs, doc.suggestion, doc.analysis, doc.recent_runs_html} :
         v.t # "absent"

\* a value inside the summary, as pieces
PiecesOf(v) == IF v.t = "str" THEN v.pieces ELSE <<StrOf(v)>>

\* line 90: the date shown
DateDisplay(start) ==
    IF start.t = "absent" THEN Rendered("Unknown")
    ELSE IF start.t = "str" /\ (\E i \in 1..Len(start.pieces) : start.pieces[i] = " ")
    THEN (IF SplitWords(start.pieces, "", <<>>) = <<>> THEN Raises
          ELSE Rendered(SplitWords(start.pieces, "", <<>>)[1]))
    ELSE Rendered(StrOf(start))

\* a number in tenths
Tenths(v) == IF v.t = "int" THEN v.n * 10 ELSE v.n

\* lines 93-104; the quotients of the model are exact in floating point
Pace(distance, duration) ==
    IF /\ distance.t \in {"int", "float"} /\ duration.t \in {"int", "float"}
       /\ distance.n > 0 /\ duration.n > 0
    THEN ToString(Tenths(duration) \div Tenths(distance)) \o ":" \o
         Pad2(((Tenths(duration) % Tenths(distance)) * 60) \div Tenths(distance)) \o "/km"
    ELSE "?"

\* lines 107-108; the objects of the model carry no averageHR
Summary(date, r) ==
    <<date, " - ">> \o (IF JTruthy(r.name) THEN PiecesOf(r.name) ELSE <<"Untitled Run">>) \o
    <<", ">> \o (IF r.distanceKm.t = "absent" THEN <<"N/A">> ELSE PiecesOf(r.distanceKm)) \o
    <<" km, ">> \o (IF r.durationMin.t = "absent" THEN <<"N/A">> ELSE PiecesOf(r.durationMin)) \o
    <<" min, ", Pace(r.distanceKm, r.durationMin), ", avg HR ?">>

RItemOf(date, r) ==
    IF date.raised THEN Raises
    ELSE Rendered("<li>" \o HtmlEscape(Summary(date.html, r)) \o "</li>")

\* lines 84-120 for one element; the objects of the model carry no intervals
RItem(r) == IF ~r.dict THEN Raises ELSE RItemOf(DateDisplay(r.startTimeLocal), r)

RECURSIVE RLoop(_, _)
RNext(item, rest, acc) == IF item.raised THEN Raises ELSE RLoop(rest, acc \o item.html)

RLoop(items, acc) ==
    IF items = <<>> THEN Rendered(acc \o "</ul>")
    ELSE RNext(RItem(Head(items)), Tail(items), acc)

format_recent_runs_html(doc) ==
    IF ~JTruthy(doc.recent_runs) THEN Rendered("<p><em>No recent runs found.</em></p>")
    ELSE IF doc.recent_runs.t # "list" THEN Raises
    ELSE RLoop(FirstN(doc.recent_runs.items, 3), "<ul>")

\* lines 136-170 on one line of at most 100 words; no analysis gives ""
format_analysis_html(doc) ==
    IF ~JTruthy(doc.analysis) THEN Rendered("")
    ELSE IF doc.analysis.t # "str" THEN Raises
    ELSE Rendered("<p>" \o HtmlEscape(doc.analysis.pieces) \o "</p>")

\* HOME_TEMPLATE: the two blocks of the page
RTemplate(storage, recent_runs, suggested_next_run, analysis_error, shown) ==
    Page("R", storage, 200,
         IF recent_runs # "" THEN Part("computed", recent_runs)
         ELSE Part("placeholder", "<p><em>No recent runs available.</em></p>"),
         IF suggested_next_run # "" THEN Part("formatted", suggested_next_run)
         ELSE IF analysis_error # <<>>
         THEN Part("error", "Unable to load analysis: " \o HtmlEscape(analysis_error))
         ELSE Part("placeholder",
                   "<p><em>No analysis available yet. The Lambda will analyze your next run.</em></p>"),
         IF suggested_next_run = "" /\ analysis_error # <<>>
         THEN "Unable to load analysis: " \o HtmlEscape(analysis_error) ELSE "",
         shown)

\* lines 349-369, given the two formatted parts
RFormatted(r, storage, runs, analysis) ==
    IF runs.raised
    THEN RTemplate(storage, "", "",
                   <<"Error formatting analysis: ">> \o
                     (IF r.doc.recent_runs.t = "str" THEN NoGetOnStr
                      ELSE <<"list index out of range">>), Nil)
    ELSE IF analysis.raised
    THEN RTemplate(storage, runs.html, "",
                   <<"Error formatting analysis: ">> \o NoSplitOnInt, r.key)
    ELSE RTemplate(storage, runs.html, analysis.html, <<>>, r.key)

\* lines 330-389, given what get_latest_analysis returned
IndexOf(r, storage) ==
    IF r.kind = "none" \/ ~DictTruthy(r.doc) THEN RTemplate(storage, "", "", <<>>, Nil)
    ELSE RFormatted(r, storage, format_recent_runs_html(r.doc), format_analysis_html(r.doc))

index(st, storage) == IndexOf(get_latest_analysis(st, storage), storage)

(***************************************************************************)
(* One page request against a bucket holding up to MaxStored analysis      *)
(* objects, written one per second.                                        *)
(***************************************************************************)
WebPut ==
    /\ web.page = NoPage
    /\ Len(store.log) < MaxStored
    /\ \E doc \in WebDocs : store' = PutObject(store, AnalysisKey(clock), doc, clock)
    /\ clock' = clock + 1
    /\ UNCHANGED <<hnd, web, fb>>

GetIndex ==
    /\ web.page = NoPage
    /\ \E storage \in StorageOutcomes :
         /\ storage = "read denied" => store.log # <<>>
         /\ web' = [web EXCEPT !.page = index(store, storage)]
    /\ UNCHANGED <<hnd, store, clock, fb>>

GetHomepage ==
    /\ web.page = NoPage
    /\ \E storage \in StorageOutcomes, md \in {"renders", "raises"} :
         /\ storage = "read denied" => store.log # <<>>
         /\ web' = [web EXCEPT !.page = homepage(web.bucket, store, storage, md)]
    /\ UNCHANGED <<hnd, store, clock, fb>>

InitWeb ==
    /\ fs = MkFs(BaseTree)
    /\ WipeInit
    /\ cyc = NoCycles
    /\ flt = IdleFilter(<<>>)
    /\ HandlerIdle
    /\ web \in {IdleWeb(b) : b \in BOOLEAN}
    /\ fb = IdleFallback(JNull)
    /\ ToolsIdle

NextWeb ==
    /\ WebPut \/ GetIndex \/ GetHomepage
    /\ UNCHANGED <<fs, wipeArg, fsPre, wipeCalls, cyc, flt, toolVars>>

SpecWeb == InitWeb /\ [][NextWeb]_vars

(***************************************************************************)
(* C1: the clearing routine, called with any path, deletes nothing and    *)
(* creates nothing unless the final component of the normalized path is   *)
(* exactly ".fitcache"; when it operates it removes only entries inside   *)
(* the directory the path designates, never that directory itself, and it *)
(* leaves every entry it keeps as it was.                                 *)
(***************************************************************************)
WipedDir == Follow(fsPre, Locate(fsPre, wipeArg))

C1_WipeOnlyFitcache ==
    wipeArg # NoCall =>
      /\ BaseName(NormPath(wipeArg)) # ".fitcache" => fs = fsPre
      /\ \A ap \in (DOMAIN fsPre) \ (DOMAIN fs) : IsStrictPrefix(WipedDir, ap)
      /\ \A ap \in (DOMAIN fsPre) \cap (DOMAIN fs) : fs[ap] = fsPre[ap]
      /\ (DOMAIN fs) \ (DOMAIN fsPre) # {} => BaseName(NormPath(wipeArg)) = ".fitcache"

\* a call on a populated scratch directory that removed its entries and
\* kept the directory
C1_Witness ==
    /\ wipeArg = PathStr(TRUE, <<"tmp", ".fitcache", "">>)
    /\ <<"tmp", ".fitcache", "sub", "12.zip">> \in DOMAIN fsPre
    /\ ListDir(fs, <<"tmp", ".fitcache">>) = {}
    /\ <<"tmp", ".fitcache">> \in DOMAIN fs
    /\ <<"tmp", "data", "keep.txt">> \in DOMAIN fs

(***************************************************************************)
(* C2: get_recent_garmin_activities never raises when authentication or   *)
(* listing fails: it returns a JSON object {"error": ...}; in every other *)
(* case it returns a JSON list of activity records.                       *)
(***************************************************************************)
C2_ErrorObjectNeverRaise ==
    \A p \in DOMAIN cyc :
      cyc[p].pc = "done" =>
        /\ cyc[p].ret.kind = "returned"
        /\ cyc[p].ret.json.top =
              (IF cyc[p].fail \in {"credentials", "login", "listing"} THEN "object" ELSE "array")

(***************************************************************************)
(* C3: once the per-activity loop is entered, no failure while             *)
(* downloading, saving, unzipping or parsing a lap file aborts the fetch:  *)
(* the result holds exactly one record per listed activity, in listing     *)
(* order, and an activity whose lap file was not obtained has undefined    *)
(* intervals.                                                              *)
(***************************************************************************)
C3_LapFailureNotFatal ==
    \A p \in DOMAIN cyc :
      LET c == cyc[p] IN
      (c.pc = "done" /\ c.looped) =>
        /\ c.ret.kind = "returned"
        /\ c.ret.json.top = "array"
        /\ Len(c.ret.json.items) = Len(c.acts)
        /\ \A i \in 1..Len(c.acts) :
              /\ c.ret.json.items[i] = ActivityRecord(c.acts[i], c.ret.json.items[i].intervals)
              /\ (\A e \in c.staged : e[1] # i) => c.ret.json.items[i].intervals.null

(***************************************************************************)
(* C4: in every record produced by either fetcher, intervals is non-null   *)
(* only if the activity type is "running", the identifier is usable, and a *)
(* lap file was retrieved in this cycle and parsed into at least one lap;  *)
(* a non-null intervals value is never an empty sequence.                  *)
(***************************************************************************)
C4_IntervalsOnlyFromParsedLaps ==
    \A p \in DOMAIN cyc :
      \A i \in 1..Len(cyc[p].out) :
        LET r == cyc[p].out[i] IN
        ~r.intervals.null =>
          /\ r.activityType = Some("running")
          /\ Truthy(r.activityId)
          /\ r.intervals.rows # <<>>
          /\ \E e \in cyc[p].staged :
                /\ e[1] = i
                /\ e[2].fmt = "tcx"
                /\ Len(e[2].body) >= 1
                /\ Len(r.intervals.rows) = Len(e[2].body)

\* a finished cycle that returned a record with two parsed laps next to a
\* running activity whose lap file could not be obtained
C4_Witness ==
    \E p \in DOMAIN cyc :
      /\ cyc[p].pc = "done"
      /\ cyc[p].ret.kind = "returned"
      /\ Len(cyc[p].out) = 2
      /\ ~cyc[p].out[1].intervals.null
      /\ Len(cyc[p].out[1].intervals.rows) = 2
      /\ cyc[p].out[2].activityType = Some("running")
      /\ Truthy(cyc[p].out[2].activityId)
      /\ cyc[p].out[2].intervals.null

(***************************************************************************)
(* Expected outcome of the filters, stated from the calendar distances.    *)
(***************************************************************************)
RECURSIVE Count(_, _)
Count(q, x) ==
    IF q = <<>> THEN 0 ELSE (IF Head(q) = x THEN 1 ELSE 0) + Count(Tail(q), x)

RECURSIVE IsSubsequence(_, _)
IsSubsequence(q, r) ==
    IF q = <<>> THEN TRUE
    ELSE IF r = <<>> THEN FALSE
    ELSE IF Head(q) = Head(r) THEN IsSubsequence(Tail(q), Tail(r))
    ELSE IsSubsequence(q, Tail(r))

\* the start lies within the trailing window of the given length: it is not
\* older than the window, where an age of exactly the window length counts
\* only if the clock shows a whole second
InWindow(a, windowSeconds, now) ==
    /\ HasAge(a)
    /\ \/ AgeSeconds(a.name) < windowSeconds
       \/ AgeSeconds(a.name) = windowSeconds /\ ~now.frac

Returned == flt.kind # "none" /\ ~flt.res.raised

(***************************************************************************)
(* C5: filter_activities_by_date with days = D retains an activity if and  *)
(* only if its start time, taken as UTC, is at or after now minus D days;  *)
(* with D = 7 an activity 7 days minus one second old is retained and one  *)
(* a second older than 7 days is dropped.                                  *)
(***************************************************************************)
C5_ContextWindowBoundary ==
    (Returned /\ flt.kind = "date") =>
      /\ \A i \in 1..Len(flt.in) :
            Count(flt.res.out, flt.in[i]) =
              (IF InWindow(flt.in[i], flt.win * 86400, flt.now)
               THEN Count(flt.in, flt.in[i]) ELSE 0)
      /\ flt.win = 7 =>
            \A i \in 1..Len(flt.in) :
              /\ flt.in[i].name = "7d-1s" => Count(flt.res.out, flt.in[i]) > 0
              /\ flt.in[i].name = "7d+1s" => Count(flt.res.out, flt.in[i]) = 0

\* the 7-day filter kept the activity one second inside the window and
\* dropped the one a second outside
C5_Witness ==
    /\ Returned
    /\ flt.kind = "date"
    /\ flt.win = 7
    /\ Len(flt.in) = 2
    /\ flt.in[1].name = "7d+1s"
    /\ flt.in[2].name = "7d-1s"
    /\ flt.res.out = <<flt.in[2]>>

(***************************************************************************)
(* C6: filter_recent_runs never returns an activity whose type is not      *)
(* "running", however recent; everything it returns is a run that started  *)
(* within the trailing H hours.                                            *)
(***************************************************************************)
C6_TriggerOnlyRuns ==
    (Returned /\ flt.kind = "runs") =>
      \A i \in 1..Len(flt.res.out) :
        /\ flt.res.out[i].activityType = Some("running")
        /\ InWindow(flt.res.out[i], flt.win * 3600, flt.now)

\* the 12-hour filter dropped a ride of 30 minutes ago and kept a run
C6_Witness ==
    /\ Returned
    /\ flt.kind = "runs"
    /\ flt.win = 12
    /\ Len(flt.in) = 2
    /\ flt.in[1].activityType = Some("cycling")
    /\ flt.in[1].name = "30min"
    /\ flt.in[2].name = "12h"
    /\ flt.res.out = <<flt.in[2]>>

(***************************************************************************)
(* C7: both filters are pure and order-preserving: the output is a         *)
(* subsequence of the input, a retained activity occurs as often as in the *)
(* input (no deduplication), and the input list is left as it was.         *)
(***************************************************************************)
C7_FilterSubsequence ==
    /\ flt.in = flt.in0
    /\ Returned =>
         /\ IsSubsequence(flt.res.out, flt.in)
         /\ \A i \in 1..Len(flt.res.out) :
               Count(flt.res.out, flt.res.out[i]) = Count(flt.in, flt.res.out[i])

\* the same retained activity twice in the input is twice in the output
C7_Witness ==
    /\ Returned
    /\ Len(flt.in) = 2
    /\ flt.in[1] = flt.in[2]
    /\ flt.res.out = flt.in

(***************************************************************************)
(* C8: an activity whose startTimeLocal is missing or is any value that is *)
(* not a valid timestamp string is dropped by both filters, and neither    *)
(* filter ever raises because of a start-time value.                       *)
(***************************************************************************)
C8_BadStartNeverFatal ==
    flt.kind # "none" =>
      /\ ~flt.res.raised
      /\ \A i \in 1..Len(flt.res.out) : HasAge(flt.res.out[i])

(***************************************************************************)
(* C9: a cycle whose trigger filter result is empty makes no language-     *)
(* model invocation and no storage write and returns status 200 with       *)
(* runs_analyzed = 0; a returned 200 status has runs_analyzed > 0 if and   *)
(* only if at least one bundle was written to storage in that cycle.       *)
(***************************************************************************)
C9_NoRunsNoAnalysis ==
    /\ hnd.trig = "empty" =>
         /\ CallCount(hnd, "model") = 0
         /\ CallCount(hnd, "storage write") = 0
         /\ store.log = <<>>
         /\ hnd.resp.kind = "returned"
         /\ hnd.resp.status = 200
         /\ hnd.resp.runs_analyzed = 0
    /\ (hnd.resp.kind = "returned" /\ hnd.resp.status = 200) =>
         (hnd.resp.runs_analyzed > 0 <=> Len(store.log) >= 1)

\* a cycle that fetched activities, none of them a run of the last 12
\* hours, and answered 200 with nothing analyzed
C9_Witness ==
    /\ hnd.pc = "done"
    /\ hnd.trig = "empty"
    /\ Len(hnd.all) = 2
    /\ hnd.resp.status = 200
    /\ hnd.resp.runs_analyzed = 0

(***************************************************************************)
(* C10: in handler B a cycle with at least one trigger-window run and no   *)
(* failing external call performs exactly one storage write of a bundle,   *)
(* whatever the number of trigger-window runs.                             *)
(***************************************************************************)
C10_OneBundlePerCycle ==
    hnd.variant = "B" =>
      /\ Len(store.log) <= 1
      /\ (hnd.pc = "done" /\ hnd.trig = "runs" /\ ~hnd.failed) =>
           /\ Len(store.log) = 1
           /\ CallCount(hnd, "storage write") = 1
           /\ store.log[1] \in DOMAIN store.objs
           /\ store.objs[store.log[1]].body.analyzed_run = hnd.recent[1]

\* handler B finished a cycle with two trigger-window runs and one write
C10_Witness ==
    /\ hnd.variant = "B"
    /\ hnd.pc = "done"
    /\ ~hnd.failed
    /\ Len(hnd.recent) = 2
    /\ Len(store.log) = 1
    /\ hnd.resp.runs_analyzed = 2

(***************************************************************************)
(* C11: in handler A a cycle with k trigger-window runs and no failing     *)
(* external call leaves k distinct bundle objects in storage, one per      *)
(* triggering run: every bundle is written once under its own key and no   *)
(* bundle is overwritten by a later write.                                 *)
(***************************************************************************)
C11_BundlePerTriggerRun ==
    (hnd.variant = "A" /\ hnd.pc = "done" /\ hnd.trig = "runs" /\ ~hnd.failed) =>
      /\ Len(store.log) = Len(hnd.recent)
      /\ \A i, j \in 1..Len(store.log) : i # j => store.log[i] # store.log[j]
      /\ Cardinality(DOMAIN store.objs) = Len(hnd.recent)
      /\ \A i \in 1..Len(hnd.recent) :
            /\ store.log[i] \in DOMAIN store.objs
            /\ store.objs[store.log[i]].body.analyzed_run = hnd.recent[i]

(***************************************************************************)
(* C12: in both handlers, if a language-model invocation of a cycle fails, *)
(* the cycle ends with an error surfaced to its caller: nothing is called  *)
(* after the failed invocation (no repeat of it, no storage write) and the *)
(* invocation ends by raising.                                             *)
(***************************************************************************)
C12_ModelFailureFatal ==
    \A i \in 1..Len(hnd.calls) :
      hnd.calls[i] = "model failure" =>
        /\ i = Len(hnd.calls)
        /\ hnd.pc = "done"
        /\ hnd.resp.kind = "raised"
        /\ store.log = <<>>

(***************************************************************************)
(* C13: in every bundle written by either handler, recent_runs is the full *)
(* list of the context-window activities of type "running", all of them    *)
(* and nothing else, ordered by start time descending.                     *)
(***************************************************************************)
C13_RecentRunsFullSorted ==
    \A k \in DOMAIN store.objs :
      LET rr == store.objs[k].body.recent_runs IN
      /\ \A i \in 1..Len(rr) : rr[i].activityType = Some("running")
      /\ \A i \in 1..Len(hnd.all) :
            hnd.all[i].activityType = Some("running") =>
              Count(rr, hnd.all[i]) = Count(hnd.all, hnd.all[i])
      /\ \A i \in 1..Len(rr) : Count(hnd.all, rr[i]) > 0
      /\ \A i, j \in 1..Len(rr) : i < j => ~StartKeyLess(rr[i], rr[j])


(***************************************************************************)
(* C19: in the fallback listing a run's duration in minutes is rendered as *)
(* hours:minutes with two-digit minutes: 60 minutes as "1:00", 90 minutes  *)
(* as "1:30".  Stated for lists of one run whose duration is a whole       *)
(* number of minutes and whose other fields are well formed.               *)
(***************************************************************************)
WholeMinutesRun(in) ==
    /\ in.t = "list" /\ Len(in.items) = 1
    /\ in.items[1].dict
    /\ in.items[1].durationMin.t = "int"
    /\ ~DateText(in.items[1].startTimeLocal).raised
    /\ ~NameText(in.items[1].name).raised

C19_DurationHoursMinutes ==
    (fb.done /\ WholeMinutesRun(fb.in)) =>
      /\ ~fb.out.raised
      /\ fb.out.html =
           "<ul><li>" \o DateText(fb.in.items[1].startTimeLocal).html \o " - " \o
           NameText(fb.in.items[1].name).html \o ", " \o
           DistText(fb.in.items[1].distanceKm) \o " km, " \o
           DurText_HoursMinutes(fb.in.items[1].durationMin) \o
           ", avg HR N/A</li></ul>"
      /\ (fb.in = JList(<<TestRunOne>>) =>
            fb.out.html = "<ul><li>2026-02-24 - Run 1, 10 km, 1:00, avg HR N/A</li></ul>")
      /\ (fb.in = JList(<<TestRunTwo>>) =>
            fb.out.html = "<ul><li>2026-02-25 - Run 2, 15 km, 1:30, avg HR N/A</li></ul>")

(***************************************************************************)
(* C20: format_runs_fallback returns exactly                               *)
(* "<ul><li>No recent runs.</li></ul>" for an empty or missing run list;   *)
(* for a non-empty list it returns one <ul> holding one <li> per run, in   *)
(* input order, for the first 15 runs at most, each of the form            *)
(* "<date> - <name>, <distance> km, <duration>, avg HR N/A" where <date>   *)
(* is the date part of startTimeLocal.  The runs of the list are runs as   *)
(* the analyzer stores them: objects whose startTimeLocal is a text with a *)
(* date part and whose name, if any, is a text.                            *)
(***************************************************************************)
\* the text before the first blank, leading blanks skipped
RECURSIVE DatePart(_, _)
DatePart(pieces, seen) ==
    IF pieces = <<>> THEN seen
    ELSE IF Head(pieces) = " " THEN (IF seen = "" THEN DatePart(Tail(pieces), "") ELSE seen)
    ELSE DatePart(Tail(pieces), seen \o Head(pieces))

StoredRun(r) ==
    /\ r.dict
    /\ r.startTimeLocal.t = "str" /\ DatePart(r.startTimeLocal.pieces, "") # ""
    /\ r.name.t \in {"str", "null", "absent"}

ExpectedItem(r) ==
    "<li>" \o DatePart(r.startTimeLocal.pieces, "") \o " - " \o NameText(r.name).html \o
    ", " \o DistText(r.distanceKm) \o " km, " \o DurText(r.durationMin) \o
    ", avg HR N/A</li>"

\* the items of runs i..n, in input order
RECURSIVE ExpectedItems(_, _, _)
ExpectedItems(runs, i, n) ==
    IF i > n THEN "" ELSE ExpectedItem(runs[i]) \o ExpectedItems(runs, i + 1, n)

C20_FallbackListing ==
    fb.done =>
      /\ (fb.in \in {JNull, JList(<<>>)} =>
            fb.out = Rendered("<ul><li>No recent runs.</li></ul>"))
      /\ (fb.in.t = "list" /\ fb.in.items # <<>>
            /\ (\A i \in 1..Len(fb.in.items) : StoredRun(fb.in.items[i]))) =>
            /\ ~fb.out.raised
            /\ fb.out.html =
                 "<ul>" \o
                 ExpectedItems(fb.in.items, 1,
                               IF Len(fb.in.items) < 15 THEN Len(fb.in.items) ELSE 15) \o
                 "</ul>"

\* C20: a list of more than fifteen stored runs was rendered
C20_Witness ==
    /\ fb.done
    /\ fb.in.t = "list" /\ Len(fb.in.items) > 15
    /\ \A i \in 1..Len(fb.in.items) : StoredRun(fb.in.items[i])
    /\ ~fb.out.raised

(***************************************************************************)
(* C14: for any non-empty set of objects stored under the analysis         *)
(* key-prefix, however many there are, the bundle rendered by GET / is one *)
(* whose last-modified time is the greatest among all objects under that   *)
(* prefix.                                                                 *)
(***************************************************************************)
C14_LatestRendered ==
    web.page.shown # Nil =>
      \A k \in DOMAIN store.objs :
        store.objs[k].lastModified <= store.objs[web.page.shown[1]].lastModified

(***************************************************************************)
(* C15: when the bundle rendered carries a non-empty recent_runs_html      *)
(* field, the page's recent-runs listing is that field verbatim and no     *)
(* listing is computed from the raw recent_runs list; a listing is         *)
(* computed only when the field is absent or empty.                        *)
(***************************************************************************)
ShownDoc == store.objs[web.page.shown[1]].body

C15_ListingFieldVerbatim ==
    web.page.shown # Nil =>
      /\ JTruthy(ShownDoc.recent_runs_html) =>
            /\ web.page.listing.src = "field"
            /\ web.page.listing.html = StrOf(ShownDoc.recent_runs_html)
      /\ web.page.listing.src \in {"fallback", "computed"} =>
            ~JTruthy(ShownDoc.recent_runs_html)

(***************************************************************************)
(* C16: when no object is stored under the analysis key-prefix (of the     *)
(* bucket the application is configured with, the storage answering), GET  *)
(* / answers with HTTP status 200 and a page showing the neutral "no       *)
(* analysis yet" placeholder, with no error message.                       *)
(***************************************************************************)
NothingStored ==
    /\ web.page.app # ""
    /\ DOMAIN store.objs = {}
    /\ web.page.storage = "ok"
    /\ web.page.app = "W" => web.bucket

C16_PlaceholderWhenEmpty ==
    NothingStored =>
      /\ ~web.page.escaped
      /\ web.page.status = 200
      /\ web.page.analysis.src = "placeholder"
      /\ web.page.analysis.html \in
           {"<p>No analysis yet. The Lambda will analyze your next run.</p>",
            "<p><em>No analysis available yet. The Lambda will analyze your next run.</em></p>"}
      /\ web.page.listing.src = "placeholder"
      /\ web.page.error = ""

\* C16: homepage answered a request against an empty prefix
C16_Witness == NothingStored /\ web.page.app = "W" /\ web.page.status = 200

(***************************************************************************)
(* C17: when listing or reading the analysis objects fails with a          *)
(* storage-access error, GET / renders a page that carries an explicit,    *)
(* visible error message; a storage-access failure is never rendered as    *)
(* the "no analysis yet" placeholder.                                      *)
(***************************************************************************)
C17_StorageFailureVisible ==
    web.page.storage \in {"list denied", "list unreachable", "read denied"} =>
      /\ ~web.page.escaped
      /\ web.page.error # ""
      /\ web.page.analysis.src # "placeholder"

(***************************************************************************)
(* C18: for every storage state and every content of the latest stored     *)
(* object (not JSON, JSON that is not an object, or an object whose        *)
(* recent_runs, suggestion or analysis fields have unexpected types), the  *)
(* GET / view function returns a rendered application page and never lets  *)
(* an exception escape to the web framework.                               *)
(***************************************************************************)
C18_NeverEscapes == web.page.app # "" => ~web.page.escaped

(***************************************************************************)
(* C21: in both fetchers, every fetch cycle that reaches the per-activity  *)
(* download step has cleared the scratch workspace before the first        *)
(* download, and the workspace is cleared again before                     *)
(* get_recent_garmin_activities returns or raises, on every exit path      *)
(* (normal return, listing failure, exception while processing an          *)
(* activity); after the cycle the workspace holds no file the cycle        *)
(* staged.                                                                 *)
(***************************************************************************)
C21_ClearedBeforeAndAfter ==
    \A p \in DOMAIN cyc :
      /\ cyc[p].pc \in {"tcx", "zip", "unzip", "parse"} => cyc[p].wipes >= 1
      /\ (cyc[p].pc = "done" /\ cyc[p].looped) => cyc[p].wipes = 2
      /\ (cyc[p].pc = "done" /\ cyc[p].fail = "listing") => cyc[p].wipes >= 1
      /\ (cyc[p].pc = "done" /\ cyc[p].looped) =>
            \A i \in 1..Len(cyc[p].dl) :
              /\ ~OsExists(fs, TcxPath(cyc[p].dl[i][1]))
              /\ ~OsExists(fs, ZipPath(cyc[p].dl[i][1]))

(***************************************************************************)
(* C22: the lap extractor never raises and never returns an empty          *)
(* sequence: for a document with zero lap elements, a document that fails  *)
(* to parse, or a lap whose numeric fields are malformed, it returns None. *)
(* In a cycle: a lap file staged for an activity is followed by the        *)
(* activity's record, whose intervals are None or a non-empty list, and    *)
(* None in the three cases named.                                          *)
(***************************************************************************)
\* a field text that is present and is no number
NotANumber(txt) == txt # <<>> /\ \E i \in 1..Len(txt) : txt[i] \notin Digits

NoLapsToReport(doc) ==
    \/ doc.fmt # "tcx"
    \/ doc.body = <<>>
    \/ \E i \in 1..Len(doc.body) :
         NotANumber(doc.body[i].dur) \/ NotANumber(doc.body[i].dist)
           \/ NotANumber(doc.body[i].hr)

C22_ExtractorNoneNotEmpty ==
    \A p \in DOMAIN cyc :
      \A e \in cyc[p].staged :
        IF e[1] = cyc[p].idx THEN cyc[p].pc = "parse"
        ELSE /\ e[1] <= Len(cyc[p].out)
             /\ cyc[p].out[e[1]].intervals.null \/ cyc[p].out[e[1]].intervals.rows # <<>>
             /\ NoLapsToReport(e[2]) => cyc[p].out[e[1]].intervals.null

\* C22: a lap file with a malformed number was staged and parsed, and the
\* cycle returned its list
C22_Witness ==
    \E p \in DOMAIN cyc :
      /\ cyc[p].pc = "done" /\ cyc[p].ret.kind = "returned"
      /\ \E e \in cyc[p].staged :
            /\ e[2].fmt = "tcx" /\ e[2].body # <<>> /\ NoLapsToReport(e[2])
            /\ cyc[p].out[e[1]].intervals.null

(***************************************************************************)
(* C23: in a formatted interval row the distance is rendered in kilometres *)
(* rounded to 2 decimals, or as "?" when the lap has no distance; the      *)
(* heart rate is rendered as an integer, or as "?" when absent; the row    *)
(* always has the shape                                                    *)
(* "{label} - {distance}km - {duration} (duration) - {pace} pace - {hr} HR"*)
(***************************************************************************)
\* the row the claim describes, around the duration and pace texts
ClaimedRow(a) ==
    a.label \o " - "
      \o (IF IsNil(a.dist_m) THEN "?" ELSE KmText(Val(a.dist_m))) \o "km - "
      \o FormatDuration(IF IsNil(a.dur_s) THEN JNull ELSE JFloat(10 * Val(a.dur_s)))
      \o " (duration) - "
      \o OrQuestion(FormatPace(RowPace(a.dist_m, a.dur_s, a.avg_speed_mps)))
      \o " pace - "
      \o (IF IsNil(a.avg_hr) THEN "?" ELSE ToString(Val(a.avg_hr))) \o " HR"

C23_RowShape ==
    (formatted.fn = "row" /\ formatted.done) =>
        formatted.out = TextResult(ClaimedRow(formatted.arg))

(***************************************************************************)
(* C24: format_duration returns "?" for a non-numeric input; for a numeric *)
(* input of s >= 0 seconds with r = s rounded to an integer, it returns    *)
(* "H:MM:SS" when r >= 3600 and "M:SS" otherwise, where MM and SS are two  *)
(* digits in 00..59 and H*3600 + M*60 + S = r (3725 gives "1:02:05", 125   *)
(* gives "2:05").                                                          *)
(***************************************************************************)
\* r is an integer nearest to the seconds given
NearestSecond(seconds, r) ==
    IF seconds.t = "int" THEN r = seconds.n
    ELSE 10 * r - seconds.n \in -5..5

\* the text is the clock reading of r seconds
ClockReading(text, r) ==
    \E H \in 0..24, M \in 0..59, S \in 0..59 :
      /\ H * 3600 + M * 60 + S = r
      /\ text = IF r >= 3600
                THEN ToString(H) \o ":" \o Pad2(M) \o ":" \o Pad2(S)
                ELSE ToString(M) \o ":" \o Pad2(S)

C24_DurationText ==
    (formatted.fn = "duration" /\ formatted.done) =>
        /\ ~formatted.out.none
        /\ IF formatted.arg.seconds.t \notin {"int", "float"}
           THEN formatted.out.text = "?"
           ELSE \E r \in (formatted.arg.seconds.n \div 10)..(formatted.arg.seconds.n + 1) :
                  /\ NearestSecond(formatted.arg.seconds, r)
                  /\ ClockReading(formatted.out.text, r)
        /\ formatted.arg.seconds = JInt(3725) => formatted.out.text = "1:02:05"
        /\ formatted.arg.seconds = JInt(125) => formatted.out.text = "2:05"

\* C24: 3599.5 seconds were formatted, and round to the first full hour
C24_Witness ==
    /\ formatted.fn = "duration" /\ formatted.done
    /\ formatted.arg.seconds = JFloat(35995)
    /\ formatted.out.text = "1:00:00"

(***************************************************************************)
(* C25: format_pace returns None for None; for a pace v >= 0 it renders    *)
(* floor(v) as the minutes and round((v - floor(v)) * 60) as two-digit     *)
(* seconds, with no carry: when the seconds round to 60 the result is      *)
(* "M:60 min/km" with M = floor(v), not "(M+1):00 min/km"; for every other *)
(* input the seconds shown are in 00..59 (5.5 gives "5:30 min/km").        *)
(***************************************************************************)
\* secs is an integer nearest to 60 times the fractional part of n/d
NearestPaceSecond(v, secs) ==
    LET twice == 2 * (secs * v.d - (v.n % v.d) * 60) IN twice \in -(v.d)..(v.d)

C25_PaceText ==
    (formatted.fn = "pace" /\ formatted.done) =>
        IF IsNil(formatted.arg.min_per_km) THEN formatted.out.none
        ELSE LET v == Val(formatted.arg.min_per_km) IN
             /\ ~formatted.out.none
             /\ \E secs \in 0..60 :
                  /\ NearestPaceSecond(v, secs)
                  /\ formatted.out.text =
                       ToString(v.n \div v.d) \o ":" \o Pad2(secs) \o " min/km"
             /\ v = Fraction(5500, 1000) => formatted.out.text = "5:30 min/km"

\* C25: a pace of 5.999 min/km was formatted, and shows sixty seconds
C25_Witness ==
    /\ formatted.fn = "pace" /\ formatted.done
    /\ formatted.arg.min_per_km = Some(Fraction(5999, 1000))
    /\ formatted.out.text = "5:60 min/km"

(***************************************************************************)
(* C26: if a required configuration identifier (GARMIN_SECRET_ARN or       *)
(* S3_BUCKET_NAME) is missing, each analyzer handler fails immediately     *)
(* with a configuration error, before any call to the secrets service,     *)
(* the fitness platform, the language model or storage is made, and        *)
(* without retry.                                                          *)
(***************************************************************************)
ConfigMissing(h) == ~(h.config.secretArn /\ h.config.bucket)

C26_ConfigCheckedFirst ==
    (ConfigMissing(hnd) /\ hnd.pc # "start") =>
        /\ hnd.pc = "done"
        /\ hnd.resp = HRaised
        /\ hnd.calls = <<>>

(***************************************************************************)
(* C27: when two fetch cycles run concurrently in the same environment,    *)
(* their scratch workspaces do not interfere: no cycle's clearing step     *)
(* removes a file staged by the other cycle, and no cycle parses a lap     *)
(* file staged by the other cycle.  Stated on the cycle that is about to   *)
(* parse: the lap file of its current activity is there, and holds what    *)
(* this cycle staged.                                                      *)
(***************************************************************************)
\* the lap file of cycle c's current activity holds what c staged for it
OwnLapFile(c) ==
    /\ OsIsFile(fs, TcxPath(CurId(c)))
    /\ <<c.idx, fs[Follow(fs, Locate(fs, TcxPath(CurId(c))))].data>> \in c.staged

C27_WorkspacesApart ==
    \A p \in DOMAIN cyc : cyc[p].pc = "parse" => OwnLapFile(cyc[p])

(***************************************************************************)
(* C28: for each listed activity, a file download is attempted only if its *)
(* type is "running" and it has a usable identifier; the direct lap-format *)
(* (TCX) download is attempted first and exactly once, the original        *)
(* archive is requested only after the direct attempt failed to yield a    *)
(* saved non-empty file, and at most once; no download is ever repeated    *)
(* for the same activity in a cycle.  dl is the cycle's sequence of        *)
(* download requests, <<identifier, format>>.                              *)
(***************************************************************************)
\* a listed activity of type running with a usable identifier
DownloadWanted(a) ==
    /\ a.typeKey = Some("running")
    /\ \/ a.activityId # Nil /\ Val(a.activityId) # 0
       \/ a.activityUUID # Nil /\ Val(a.activityUUID) # 0

IdOf(a) == IF a.activityId # Nil /\ Val(a.activityId) # 0
           THEN Val(a.activityId) ELSE Val(a.activityUUID)

\* entries 1..upto of the listing that want a download and carry this id
ListedWanting(c, id, upto) ==
    Cardinality({i \in 1..upto : DownloadWanted(c.acts[i]) /\ IdOf(c.acts[i]) = id})

Requests(c, id, format) ==
    Cardinality({k \in 1..Len(c.dl) : c.dl[k] = <<id, format>>})

ShortOf(a, b) == IF a < b THEN a ELSE b

C28_DownloadOrder ==
    \A p \in DOMAIN cyc :
      LET c == cyc[p] IN
      /\ \A k \in 1..Len(c.dl) :
           /\ ListedWanting(c, c.dl[k][1], ShortOf(c.idx, Len(c.acts))) >= 1
           /\ c.dl[k][2] = "ORIGINAL" =>
                 k > 1 /\ c.dl[k - 1] = <<c.dl[k][1], "TCX">>
           /\ Requests(c, c.dl[k][1], "TCX")
                 <= ListedWanting(c, c.dl[k][1], ShortOf(c.idx, Len(c.acts)))
      /\ \A i \in 1..(c.idx - 1) :
           DownloadWanted(c.acts[i]) =>
             Requests(c, IdOf(c.acts[i]), "TCX") >= ListedWanting(c, IdOf(c.acts[i]), c.idx - 1)
      /\ c.pc \in {"zip", "unzip"} => \A e \in c.staged : e[1] # c.idx

\* C28: a cycle listed a ride and a run, asked for the run's lap file, then
\* for its original archive, and for nothing else
C28_Witness ==
    \E p \in DOMAIN cyc :
      /\ cyc[p].pc = "done"
      /\ cyc[p].acts = <<Ride, MorningRun>>
      /\ cyc[p].dl = << <<11, "TCX">>, <<11, "ORIGINAL">> >>

(***************************************************************************)
(* C29: in every bundle written by either handler, analyzed_run is a       *)
(* running activity that lies in the trigger window of that cycle, and it  *)
(* is an element of the recent_runs list stored in the same bundle.        *)
(***************************************************************************)
\* the run started no earlier than TRIGGER_HOURS before the cycle began
StartedInTriggerWindow(run) ==
    /\ run.startTimeLocal.tag = "str"
    /\ LET f == run.startTimeLocal.f IN
       ToSeconds(f[1], f[2], f[3], f[4], f[5], f[6])
         >= ToSeconds(2024, 3, 4, 10, 30, 0) - TRIGGER_HOURS * 3600

C29_AnalyzedRunListed ==
    \A k \in DOMAIN store.objs :
      LET b == store.objs[k].body IN
      /\ b.analyzed_run.activityType = Some("running")
      /\ StartedInTriggerWindow(b.analyzed_run)
      /\ \E i \in 1..Len(b.recent_runs) : b.recent_runs[i] = b.analyzed_run

(***************************************************************************)
(* C30: each invocation of the App Runner scheduler handler makes at most  *)
(* one service call, decided only by the current Europe/London hour:       *)
(* exactly one resume_service call and no pause when the hour is 8,        *)
(* exactly one pause_service call and no resume when the hour is 18, and   *)
(* no service call at any other hour.  Stated for every invocation (at     *)
(* most one call) and, for the hour's decision, for the handler deployed   *)
(* with its APPRUNNER_SERVICE_ARN.                                         *)
(***************************************************************************)
\* the London wall-clock hour of the model's four days, from the calendar
LondonHour(at) ==
    CASE <<at[1], at[2]>> = <<1, 15>>  -> at[3]
      [] <<at[1], at[2]>> = <<7, 1>>   -> (at[3] + 1) % 24
      [] <<at[1], at[2]>> = <<3, 31>>  -> IF at[3] = 0 THEN 0 ELSE (at[3] + 1) % 24
      [] <<at[1], at[2]>> = <<10, 27>> -> IF at[3] = 0 THEN 1 ELSE at[3]

C30_OneCallByHour ==
    sch.done =>
        /\ Len(sch.calls) <= 1
        /\ sch.arn =>
             sch.calls = CASE LondonHour(sch.at) = 8  -> <<"resume_service">>
                           [] LondonHour(sch.at) = 18 -> <<"pause_service">>
                           [] OTHER -> <<>>

\* C30: an invocation at 07:00 UTC on a summer day, 8 o'clock in London,
\* has resumed the service
C30_Witness ==
    /\ sch.done /\ sch.arn
    /\ sch.at = <<7, 1, 7>>
    /\ sch.calls = <<"resume_service">>
    /\ sch.ret = SchedulerReturn("returned", "resume", 0)

====
